---- MODULE Spec2Model ----
(***************************************************************************)
(* Model of the arqut edge agent: the Service Manager (reverse-proxy       *)
(* listener fleet and service catalog), the Sync Coordinator (service-sync *)
(* messages and their callback table), the Signaling Client (one           *)
(* reconnecting WebSocket) and the Tunnel Coordinator's peer table.        *)
(*                                                                         *)
(* Every handler of the Service Manager is written as a sequence of steps  *)
(* (StepCall) over a record `w` holding the manager's fields.  The         *)
(* sequential specification Spec runs a whole handler in one action        *)
(* (RunCall); the concurrent specification SpecConc lets two callers       *)
(* interleave the same steps.                                              *)
(***************************************************************************)
EXTENDS Integers, Sequences, FiniteSets, TLC

VARIABLES
    db,             \* proxy_services table: service id -> row
    interfaces,     \* ProxyProvider.interfaces: interface name -> IP
    servers,        \* ProxyProvider.servers: key -> http.Server
    detached,       \* servers still serving whose map entry was overwritten
    started,        \* ProxyProvider.started
    ctx,            \* ProxyProvider.ctx: "nil", "live" or "cancelled"
    pingServer,     \* TRUE while the ping server listens on :3031
    syncChan,       \* TRUE when ProxyProvider.syncChan is set
    outboundChan,   \* Client.outboundChan (buffered channel)
    syncCallbacks,  \* ProxyProvider.syncCallbacks: message id -> callback
    nextId,         \* the next message id generateID() hands out
    enqueued,       \* message ids that were put on outboundChan
    acked,          \* message ids whose service-sync-ack was handled
    last,           \* the most recent Service Manager call and its outcome
    calls,          \* SpecConc: the calls in progress, one per caller
    client,         \* the signaling Client: its fields, sockets and goroutines
    wgm             \* the wireguard Manager: peers, sessions and a session's bind

mgrVars == <<db, interfaces, servers, detached, started, ctx, pingServer,
             syncChan, outboundChan, syncCallbacks, nextId, enqueued, acked,
             last, calls>>

vars == <<mgrVars, client, wgm>>

-----------------------------------------------------------------------------
(* Bounds and input values                                                 *)

MaxServices == 2
MaxMsgs == 3
OutboundCap == 1
PortRangeStart == 8000
PortRangeSize == 2
NCallers == 2
MaxDials == 3
MaxPeers == 2
MaxSessions == 2
IndexLimit == 255
MaxFields == 2
MaxAttempts == 8

Nil == "nil"
ServiceIds == 1..MaxServices
MsgIds == 1..MaxMsgs
Callers == 1..NCallers
PortRangeEnd == PortRangeStart + PortRangeSize - 1
NameOrder == <<"", "api", "web">>
IfNames == {"tun0", "tun1"}
IPs == {"10.0.0.1", "10.0.1.1"}

-----------------------------------------------------------------------------
(* Helpers on maps                                                         *)

Put(f, k, v) == [x \in DOMAIN f \cup {k} |-> IF x = k THEN v ELSE f[x]]
Drop(f, ks) == [x \in DOMAIN f \ ks |-> f[x]]
Range(f) == {f[x] : x \in DOMAIN f}
Min(S) == CHOOSE x \in S : \A y \in S : x <= y
EmptyMap == [x \in {} |-> Nil]

World == [db |-> db, interfaces |-> interfaces, servers |-> servers,
          detached |-> detached, started |-> started, ctx |-> ctx,
          pingServer |-> pingServer, syncChan |-> syncChan,
          outboundChan |-> outboundChan, syncCallbacks |-> syncCallbacks,
          nextId |-> nextId, enqueued |-> enqueued, acked |-> acked,
          last |-> last]

Commit(w) ==
    /\ db' = w.db
    /\ interfaces' = w.interfaces
    /\ servers' = w.servers
    /\ detached' = w.detached
    /\ started' = w.started
    /\ ctx' = w.ctx
    /\ pingServer' = w.pingServer
    /\ syncChan' = w.syncChan
    /\ outboundChan' = w.outboundChan
    /\ syncCallbacks' = w.syncCallbacks
    /\ nextId' = w.nextId
    /\ enqueued' = w.enqueued
    /\ acked' = w.acked
    /\ last' = w.last

-----------------------------------------------------------------------------
(* Listeners                                                               *)

\* The servers that are bound and accepting: those of the servers map and
\* those whose map entry was overwritten while they were serving.
Accepting(w) == Range(w.servers) \cup w.detached

\* net.Listen("tcp", addr) of a server's ListenAndServe succeeds when no
\* other accepting server holds the address.
AddrBound(w, addr) == \E s \in Accepting(w) : s.addr = addr

\* net.Listen("tcp", ":p") of the allocator's probe binds every address.
PortFree(w, p) == \A s \in Accepting(w) : s.addr[2] # p

UsedPorts(w) == {w.db[i].tunnel_port : i \in DOMAIN w.db}

\* A variant of the allocator's loop without the net.Listen probe (used to
\* show that C20 depends on the probe).
RECURSIVE allocateFromNoProbe(_, _)
allocateFromNoProbe(w, port) ==
    IF port > PortRangeEnd THEN 0
    ELSE IF port \notin UsedPorts(w) THEN port
    ELSE allocateFromNoProbe(w, port + 1)

allocatePortNoProbe(w) == allocateFromNoProbe(w, PortRangeStart)

\* allocatePort's loop: for port := start; port <= end; port++, the first
\* port that is not a used tunnel port and on which the probe binds; 0
\* stands for the error "no available ports in range".
RECURSIVE allocateFrom(_, _)
allocateFrom(w, port) ==
    IF port > PortRangeEnd THEN 0
    ELSE IF port \notin UsedPorts(w) /\ PortFree(w, port) THEN port
    ELSE allocateFrom(w, port + 1)

allocatePort(w) == allocateFrom(w, PortRangeStart)

\* The server is stored under "<id>-<addr>"; its goroutine binds the address
\* and a second goroutine shuts it down when the context is cancelled.  A
\* server that is not serving (its bind failed, or it was shut down) never
\* serves again and stopping it does nothing, so `servers` holds only the
\* entries whose server is serving: storing a server that fails to bind
\* leaves the key without a serving server, and a serving server whose key
\* is overwritten keeps serving in `detached`.  A server started with a
\* context that is already cancelled may bind before its second goroutine
\* shuts it down: it serves until ctxDoneShutdown takes it.
startReverseProxyService(w, id, row, ip) ==
    LET addr == <<ip, row.tunnel_port>>
        key == <<id, ip, row.tunnel_port>>
        srv == [svc |-> id, addr |-> addr,
                target |-> <<row.local_host, row.local_port>>]
        up == ~AddrBound(w, addr)
        old == IF key \in DOMAIN w.servers THEN {w.servers[key]} ELSE {}
    IN  [w EXCEPT !.servers = IF up THEN Put(@, key, srv) ELSE Drop(@, {key}),
                  !.detached = @ \cup old]

RECURSIVE StartOnNames(_, _, _, _)
StartOnNames(w, id, row, names) ==
    IF names = {} THEN w
    ELSE LET n == CHOOSE x \in names : TRUE
         IN  StartOnNames(startReverseProxyService(w, id, row, w.interfaces[n]),
                          id, row, names \ {n})

startService(w, id, row) == StartOnNames(w, id, row, DOMAIN w.interfaces)

stopService(w, id) ==
    [w EXCEPT !.servers = Drop(@, {k \in DOMAIN @ : k[1] = id})]

stopServicesOnInterface(w, ip) ==
    [w EXCEPT !.servers = Drop(@, {k \in DOMAIN @ : @[k].addr[1] = ip})]

\* GetServices: ORDER BY name (ties by id)
NameRank(n) == CHOOSE i \in 1..Len(NameOrder) : NameOrder[i] = n
Before(w, i, j) ==
    \/ NameRank(w.db[i].name) < NameRank(w.db[j].name)
    \/ NameRank(w.db[i].name) = NameRank(w.db[j].name) /\ i <= j
RECURSIVE SortServices(_, _)
SortServices(w, ids) ==
    IF ids = {} THEN <<>>
    ELSE LET f == CHOOSE i \in ids : \A j \in ids : Before(w, i, j)
         IN  <<f>> \o SortServices(w, ids \ {f})
GetServices(w) == SortServices(w, DOMAIN w.db)

RECURSIVE StartEach(_, _, _)
StartEach(w, ids, onIp) ==
    IF ids = <<>> THEN w
    ELSE LET id == Head(ids)
             row == w.db[id]
             w1 == IF ~row.enabled THEN w
                   ELSE IF onIp = Nil THEN startService(w, id, row)
                   ELSE startReverseProxyService(w, id, row, onIp)
         IN  StartEach(w1, Tail(ids), onIp)

\* `run` is what the handler read under the lock: started && ctx != nil.
startServicesOnInterface(w, ip, run) ==
    IF ~run THEN w ELSE StartEach(w, GetServices(w), ip)

\* A variant of ctxDoneShutdown in which no server has a goroutine waiting
\* for ctx.Done(), so that only stop()'s wait shuts servers down (used to
\* show that C14 depends on that goroutine).
ctxDoneShutdownNone(w) == {}

\* The servers whose second goroutine has seen ctx.Done() and shuts them
\* down: every serving server once the context is cancelled.
ctxDoneShutdown(w) == IF w.ctx = "cancelled" THEN Accepting(w) ELSE {}

-----------------------------------------------------------------------------
(* Sync Coordinator                                                        *)

\* A message of the outbound channel.  `operation` is Nil when the payload
\* has no "operation" key; `services` are the ids of the rows it carries.
Msg(type, mid, operation, services) ==
    [type |-> type, message_id |-> mid, operation |-> operation,
     services |-> services]

\* A variant of Enqueue that leaves the callback registered when the channel
\* is full (used to show that C8 depends on the default branch's delete).
EnqueueKeepsCallback(w, msg, cb) ==
    LET mid == w.nextId
        w1 == [w EXCEPT !.nextId = @ + 1,
                        !.syncCallbacks = Put(@, mid, cb)]
        full == Len(w.outboundChan) >= OutboundCap
    IN  IF full
        THEN [w |-> w1, att |-> <<[msg |-> msg, queued |-> FALSE]>>]
        ELSE [w |-> [w1 EXCEPT !.outboundChan = Append(@, msg),
                               !.enqueued = @ \cup {mid}],
              att |-> <<[msg |-> msg, queued |-> TRUE]>>]

\* select { case syncChan <- msg: ... default: delete(syncCallbacks, id) }
\* after the callback was registered under a fresh message id.  The result
\* is the new state and the enqueue attempt that was made (if any).
Enqueue(w, msg, cb) ==
    LET mid == w.nextId
        w1 == [w EXCEPT !.nextId = @ + 1,
                        !.syncCallbacks = Put(@, mid, cb)]
        full == Len(w.outboundChan) >= OutboundCap
    IN  IF full
        THEN [w |-> [w1 EXCEPT !.syncCallbacks = Drop(@, {mid})],
              att |-> <<[msg |-> msg, queued |-> FALSE]>>]
        ELSE [w |-> [w1 EXCEPT !.outboundChan = Append(@, msg),
                               !.enqueued = @ \cup {mid}],
              att |-> <<[msg |-> msg, queued |-> TRUE]>>]

syncServiceOperation(w, operation, id) ==
    IF ~w.syncChan THEN [w |-> w, att |-> <<>>]
    ELSE Enqueue(w, Msg("service-sync", w.nextId, operation, {id}),
                 [operation |-> operation, serviceID |-> id])

syncAllServices(w) ==
    IF ~w.syncChan THEN [w |-> w, att |-> <<>>]
    ELSE IF DOMAIN w.db = {} THEN [w |-> w, att |-> <<>>]
    ELSE Enqueue(w, Msg("service-sync-batch", w.nextId, Nil, DOMAIN w.db),
                 [operation |-> "batch-sync",
                  serviceID |-> Cardinality(DOMAIN w.db)])

\* mid = 0 stands for an ack whose payload has no usable message_id.
HandleServiceSyncAck(w, mid, wellFormed) ==
    IF ~wellFormed THEN w
    ELSE [w EXCEPT !.syncCallbacks = Drop(@, {mid} \cap DOMAIN @),
                   !.acked = IF mid \in 1..(w.nextId - 1)
                             THEN @ \cup {mid} ELSE @]

-----------------------------------------------------------------------------
(* Service Manager handlers, step by step                                  *)

NoRow == [name |-> "", tunnel_port |-> 0, local_host |-> "", local_port |-> 0,
          protocol |-> "", enabled |-> FALSE]

NewCall(op, id, arg, pc) ==
    [op |-> op, pc |-> pc, id |-> id, arg |-> arg, tport |-> 0,
     row |-> NoRow, run |-> FALSE, err |-> "ok", attempts |-> <<>>]

\* p.mu.RLock(); started := p.started; ctx := p.ctx; p.mu.RUnlock()
ReadStarted(w) == w.started /\ w.ctx # "nil"

Done(t, err) == [t EXCEPT !.pc = "done", !.err = err]

AddServiceInvalid(a) ==
    \/ a.protocol \notin {"http", "websocket"}
    \/ a.local_port < 1 \/ a.local_port > 65535
    \/ a.local_host = ""
    \/ a.name = ""

AddServiceStep(w, t) ==
    CASE t.pc = "alloc" ->
            IF AddServiceInvalid(t.arg) THEN [w |-> w, t |-> Done(t, "invalid")]
            ELSE LET p == allocatePort(w)
                 IN  IF p = 0 THEN [w |-> w, t |-> Done(t, "exhausted")]
                     ELSE [w |-> w, t |-> [t EXCEPT !.pc = "insert", !.tport = p]]
      [] t.pc = "insert" ->
            IF t.id \in DOMAIN w.db THEN [w |-> w, t |-> Done(t, "storage")]
            ELSE LET row == [name |-> t.arg.name, tunnel_port |-> t.tport,
                             local_host |-> t.arg.local_host,
                             local_port |-> t.arg.local_port,
                             protocol |-> t.arg.protocol, enabled |-> TRUE]
                 IN  [w |-> [w EXCEPT !.db = Put(@, t.id, row)],
                      t |-> [t EXCEPT !.pc = "check", !.row = row]]
      [] t.pc = "check" ->
            [w |-> w, t |-> [t EXCEPT !.pc = "start", !.run = ReadStarted(w)]]
      [] t.pc = "start" ->
            [w |-> IF t.run THEN startService(w, t.id, t.row) ELSE w,
             t |-> [t EXCEPT !.pc = "sync"]]
      [] t.pc = "sync" ->
            LET r == syncServiceOperation(w, "created", t.id)
            IN  [w |-> r.w, t |-> [Done(t, "ok") EXCEPT !.attempts = r.att]]

\* ProxyServiceConfig: `has` names the fields whose pointer is not nil.
ModifyInvalid(c) ==
    \/ ("name" \in c.has /\ c.name = "")
    \/ ("local_host" \in c.has /\ c.local_host = "")
    \/ ("local_port" \in c.has /\ (c.local_port < 1 \/ c.local_port > 65535))

NoFields(c) == c.has = {}

\* db.Model(...).Where("id = ?", id).Updates(updates): no row, no error
Updates(w, id, c) ==
    IF id \notin DOMAIN w.db THEN w
    ELSE [w EXCEPT !.db[id] =
            [@ EXCEPT !.name = IF "name" \in c.has THEN c.name ELSE @,
                      !.local_host = IF "local_host" \in c.has
                                     THEN c.local_host ELSE @,
                      !.local_port = IF "local_port" \in c.has
                                     THEN c.local_port ELSE @,
                      !.enabled = IF "enabled" \in c.has THEN c.enabled ELSE @]]

ModifyServiceStep(w, t) ==
    CASE t.pc = "update" ->
            IF ModifyInvalid(t.arg) THEN [w |-> w, t |-> Done(t, "invalid")]
            ELSE IF NoFields(t.arg) THEN [w |-> w, t |-> Done(t, "invalid")]
            ELSE [w |-> Updates(w, t.id, t.arg), t |-> [t EXCEPT !.pc = "stop"]]
      [] t.pc = "stop" ->
            [w |-> stopService(w, t.id), t |-> [t EXCEPT !.pc = "get"]]
      [] t.pc = "get" ->
            IF t.id \notin DOMAIN w.db
            THEN [w |-> w, t |-> [t EXCEPT !.pc = "sync"]]
            ELSE [w |-> w, t |-> [t EXCEPT !.pc = "check", !.row = w.db[t.id]]]
      [] t.pc = "check" ->
            [w |-> w, t |-> [t EXCEPT !.pc = "start", !.run = ReadStarted(w)]]
      [] t.pc = "start" ->
            [w |-> IF t.row.enabled /\ t.run
                   THEN startService(w, t.id, t.row) ELSE w,
             t |-> [t EXCEPT !.pc = "sync"]]
      [] t.pc = "sync" ->
            IF t.id \notin DOMAIN w.db THEN [w |-> w, t |-> Done(t, "ok")]
            ELSE LET r == syncServiceOperation(w, "updated", t.id)
                 IN  [w |-> r.w, t |-> [Done(t, "ok") EXCEPT !.attempts = r.att]]

DeleteServiceStep(w, t) ==
    CASE t.pc = "get" ->
            IF t.id \notin DOMAIN w.db THEN [w |-> w, t |-> Done(t, "notfound")]
            ELSE [w |-> w, t |-> [t EXCEPT !.pc = "stop", !.row = w.db[t.id]]]
      [] t.pc = "stop" ->
            [w |-> stopService(w, t.id), t |-> [t EXCEPT !.pc = "delete"]]
      [] t.pc = "delete" ->
            [w |-> [w EXCEPT !.db = Drop(@, {t.id})],
             t |-> [t EXCEPT !.pc = "sync"]]
      [] t.pc = "sync" ->
            LET r == syncServiceOperation(w, "deleted", t.id)
            IN  [w |-> r.w, t |-> [Done(t, "ok") EXCEPT !.attempts = r.att]]

AddInterfaceStep(w, t) ==
    CASE t.pc = "set" ->
            [w |-> [w EXCEPT !.interfaces = Put(@, t.arg.name, t.arg.ip)],
             t |-> [t EXCEPT !.pc = "check"]]
      [] t.pc = "check" ->
            [w |-> w, t |-> [t EXCEPT !.pc = "start", !.run = ReadStarted(w)]]
      [] t.pc = "start" ->
            [w |-> startServicesOnInterface(w, t.arg.ip, t.run),
             t |-> Done(t, "ok")]

RemoveInterfaceStep(w, t) ==
    CASE t.pc = "del" ->
            IF t.arg.name \in DOMAIN w.interfaces
            THEN [w |-> [w EXCEPT !.interfaces = Drop(@, {t.arg.name})],
                  t |-> [t EXCEPT !.pc = "stop",
                                  !.arg.ip = w.interfaces[t.arg.name]]]
            ELSE [w |-> w, t |-> Done(t, "ok")]
      [] t.pc = "stop" ->
            [w |-> stopServicesOnInterface(w, t.arg.ip), t |-> Done(t, "ok")]

SetInterfaceIPsStep(w, t) ==
    [w |-> [w EXCEPT !.interfaces = t.arg], t |-> Done(t, "ok")]

\* A variant of StartStep without the check of the started flag (used to
\* show that C13 depends on start() refusing to run twice).
StartStepUnguarded(w, t) ==
    CASE t.pc = "flag" ->
            [w |-> [w EXCEPT !.started = TRUE, !.ctx = "live"],
             t |-> [t EXCEPT !.pc = "ping"]]
      [] t.pc = "ping" ->
            [w |-> [w EXCEPT !.pingServer = (w.ctx = "live")],
             t |-> [t EXCEPT !.pc = "load"]]
      [] t.pc = "load" ->
            [w |-> StartEach(w, GetServices(w), Nil), t |-> Done(t, "ok")]

StartStep(w, t) ==
    CASE t.pc = "flag" ->
            IF w.started THEN [w |-> w, t |-> Done(t, "already started")]
            ELSE [w |-> [w EXCEPT !.started = TRUE, !.ctx = "live"],
                  t |-> [t EXCEPT !.pc = "ping"]]
      [] t.pc = "ping" ->
            [w |-> [w EXCEPT !.pingServer = (w.ctx = "live")],
             t |-> [t EXCEPT !.pc = "load"]]
      [] t.pc = "load" ->
            [w |-> StartEach(w, GetServices(w), Nil), t |-> Done(t, "ok")]

\* stopInternal's p.wg.Wait(): the goroutines of every server started so
\* far have returned, so each of them was shut down by its second goroutine.
stopInternalWait(w) ==
    [w EXCEPT !.servers = EmptyMap, !.detached = {}, !.pingServer = FALSE]

\* Stop: stopInternal clears the flag under the lock, cancels the context,
\* waits for the goroutines; Stop then returns nil.
StopStep(w, t) ==
    CASE t.pc = "flag" ->
            IF ~w.started THEN [w |-> w, t |-> Done(t, "ok")]
            ELSE [w |-> [w EXCEPT !.started = FALSE],
                  t |-> [t EXCEPT !.pc = "cancel"]]
      [] t.pc = "cancel" ->
            [w |-> [w EXCEPT !.ctx = "cancelled"], t |-> [t EXCEPT !.pc = "wait"]]
      [] t.pc = "wait" ->
            [w |-> stopInternalWait(w), t |-> Done(t, "ok")]

\* Clear: DELETE FROM proxy_services WHERE 1=1, and return the error.
ClearStep(w, t) ==
    [w |-> [w EXCEPT !.db = EmptyMap], t |-> Done(t, "ok")]

StepCall(w, t) ==
    CASE t.op = "add_service" -> AddServiceStep(w, t)
      [] t.op = "modify_service" -> ModifyServiceStep(w, t)
      [] t.op = "delete_service" -> DeleteServiceStep(w, t)
      [] t.op = "add_interface" -> AddInterfaceStep(w, t)
      [] t.op = "remove_interface" -> RemoveInterfaceStep(w, t)
      [] t.op = "set_interface_ips" -> SetInterfaceIPsStep(w, t)
      [] t.op = "start" -> StartStep(w, t)
      [] t.op = "stop" -> StopStep(w, t)
      [] t.op = "clear" -> ClearStep(w, t)

\* A call run from its first step to its return, with no other call in
\* between; `last` records the call and what it returned.
RECURSIVE RunSteps(_, _)
RunSteps(w, t) ==
    IF t.pc = "done" THEN [w |-> w, t |-> t]
    ELSE LET r == StepCall(w, t) IN RunSteps(r.w, r.t)

Outcome(t) ==
    [op |-> t.op, id |-> t.id, err |-> t.err, attempts |-> t.attempts]

RunCall(w, t) ==
    LET r == RunSteps(w, t) IN [r.w EXCEPT !.last = Outcome(r.t)]

-----------------------------------------------------------------------------
(* The sequential specification of the Service Manager and its sync        *)

NoCall == [op |-> "none", id |-> 0, err |-> "ok", attempts |-> <<>>]

\* NewClientWithPath: no socket, no context yet, nothing running.
InitClient ==
    [conn |-> 0, ctx |-> "nil", reconnecting |-> FALSE, sockets |-> <<>>,
     broken |-> {}, procs |-> EmptyMap, workers |-> 0,
     connectCalled |-> FALSE, closing |-> "no", senders |-> <<>>,
     wire |-> <<>>, queuedDown |-> {}, dequeuedDown |-> {},
     loops |-> EmptyMap]

\* The capacity of the receive channel of a WebRTCBind.
RecvCap == 100

\* NewWebRTCBind: an open bind with its first close signal and an empty
\* receive channel. closed is the identity of the channel in b.closed,
\* closes[i] counts the close() calls on channel i, recvCh is the buffered
\* channel (its capacity and its length), live counts the data channels
\* whose callbacks are registered, pc is the position of the Open() in
\* progress; opens and packets count the calls and the packets.
NewWebRTCBind ==
    [closedFlag |-> FALSE, closed |-> 1, closes |-> <<0>>,
     recvCh |-> [cap |-> RecvCap, len |-> 0], dataChannel |-> FALSE,
     live |-> 0, pc |-> "idle", opens |-> 0, packets |-> 0]

\* NewService: the wireguard Service before main has created the registry.
\* sigClient tells whether the registry holds a signaling client, manager
\* whether s.manager is set, pushed is the map the last SetNetworkService
\* handed to the network service, response the answer of the last API
\* request, crashed whether a goroutine panicked with nobody recovering.
NoResponse == [status |-> "none", body |-> {}]

NewService ==
    [registry |-> FALSE, sigClient |-> FALSE, initialized |-> FALSE,
     manager |-> FALSE, started |-> FALSE, netService |-> FALSE,
     pushed |-> {}, routes |-> FALSE, stopped |-> FALSE,
     response |-> NoResponse, crashed |-> FALSE]

\* NewManager: empty peer table and session table.
NoTeardown == [sid |-> 0, pc |-> "none", name |-> FALSE]

InitManager ==
    [clientPeers |-> EmptyMap, wgConns |-> EmptyMap, sessions |-> <<>>,
     notifs |-> {}, reply |-> Nil, found |-> [peer |-> FALSE, session |-> FALSE],
     td |-> NoTeardown, panicked |-> FALSE, bind |-> NewWebRTCBind,
     service |-> NewService]

InitMgr ==
    /\ db = EmptyMap
    /\ interfaces = EmptyMap
    /\ servers = EmptyMap
    /\ detached = {}
    /\ started = FALSE
    /\ ctx = "nil"
    /\ pingServer = FALSE
    /\ outboundChan = <<>>
    /\ syncCallbacks = EmptyMap
    /\ nextId = 1
    /\ enqueued = {}
    /\ acked = {}
    /\ last = NoCall
    /\ calls = EmptyMap
    /\ client = InitClient
    /\ wgm = InitManager

\* add_service inputs: the valid ones and one invalid input of each kind
ValidAdd(h) ==
    [name |-> "web", local_host |-> h, local_port |-> 80, protocol |-> "http"]
InvalidAdds ==
    {[ValidAdd("h1") EXCEPT !.name = ""],
     [ValidAdd("h1") EXCEPT !.local_host = ""],
     [ValidAdd("h1") EXCEPT !.local_port = 0],
     [ValidAdd("h1") EXCEPT !.local_port = 65536],
     [ValidAdd("h1") EXCEPT !.protocol = "ftp"]}
AddArgs(hosts) == {ValidAdd(h) : h \in hosts} \cup InvalidAdds
\* the add_service inputs of the one-call-at-a-time specifications
AddInputs == {a : a \in AddArgs({"h1"})}

\* modify_service inputs: partial updates of one field
NoConfig ==
    [has |-> {}, name |-> "", local_host |-> "", local_port |-> 0,
     enabled |-> FALSE]
SetName(n) == [NoConfig EXCEPT !.has = {"name"}, !.name = n]
SetHost(h) == [NoConfig EXCEPT !.has = {"local_host"}, !.local_host = h]
SetPort(p) == [NoConfig EXCEPT !.has = {"local_port"}, !.local_port = p]
SetEnabled(e) == [NoConfig EXCEPT !.has = {"enabled"}, !.enabled = e]
InvalidConfigs == {NoConfig, SetName(""), SetHost(""), SetPort(0), SetPort(65536)}
\* the modify_service inputs of Spec and of SpecSync
ModifyInputs ==
    {c : c \in {SetHost("h1"), SetEnabled(TRUE), SetEnabled(FALSE)}
                  \cup InvalidConfigs}
SyncModifyInputs ==
    {c : c \in {SetName("api"), SetEnabled(TRUE), SetEnabled(FALSE)}
                  \cup InvalidConfigs}

IdsLeft == nextId <= MaxMsgs

AddService(args) ==
    /\ IdsLeft
    /\ \E id \in ServiceIds, a \in args :
          Commit(RunCall(World, NewCall("add_service", id, a, "alloc")))
    /\ UNCHANGED <<calls, client, wgm>>

ModifyService(args) ==
    /\ IdsLeft
    /\ \E id \in ServiceIds, c \in args :
          Commit(RunCall(World, NewCall("modify_service", id, c, "update")))
    /\ UNCHANGED <<calls, client, wgm>>

DeleteService ==
    /\ IdsLeft
    /\ \E id \in ServiceIds :
          Commit(RunCall(World, NewCall("delete_service", id, Nil, "get")))
    /\ UNCHANGED <<calls, client, wgm>>

AddInterface ==
    /\ \E n \in IfNames, ip \in IPs :
          Commit(RunCall(World, NewCall("add_interface", 0,
                                        [name |-> n, ip |-> ip], "set")))
    /\ UNCHANGED <<calls, client, wgm>>

RemoveInterface ==
    /\ \E n \in IfNames :
          Commit(RunCall(World, NewCall("remove_interface", 0,
                                        [name |-> n, ip |-> ""], "del")))
    /\ UNCHANGED <<calls, client, wgm>>

InterfaceMaps == {m : m \in UNION {[S -> IPs] : S \in SUBSET IfNames}}

SetInterfaceIPs ==
    /\ \E m \in InterfaceMaps :
          Commit(RunCall(World, NewCall("set_interface_ips", 0, m, "set")))
    /\ UNCHANGED <<calls, client, wgm>>

Start ==
    /\ Commit(RunCall(World, NewCall("start", 0, Nil, "flag")))
    /\ UNCHANGED <<calls, client, wgm>>

Stop ==
    /\ Commit(RunCall(World, NewCall("stop", 0, Nil, "flag")))
    /\ UNCHANGED <<calls, client, wgm>>

\* The on-connect handler the signaling client calls after every successful
\* connection.
OnReconnectHandler(w) ==
    LET r == syncAllServices(w)
    IN  [r.w EXCEPT !.last = [op |-> "connect", id |-> 0, err |-> "ok",
                              attempts |-> r.att]]

OnReconnect ==
    /\ IdsLeft
    /\ Commit(OnReconnectHandler(World))
    /\ UNCHANGED <<calls, client, wgm>>

\* The reader dispatches a service-sync-ack of the cloud.
ServiceSyncAck ==
    /\ \E mid \in 0..MaxMsgs, wellFormed \in BOOLEAN :
          Commit(HandleServiceSyncAck(World, mid, wellFormed))
    /\ UNCHANGED <<calls, client, wgm>>

\* The outbound sender takes the next message off the channel.
OutboundDequeue ==
    /\ outboundChan # <<>>
    /\ outboundChan' = Tail(outboundChan)
    /\ UNCHANGED <<db, interfaces, servers, detached, started, ctx, pingServer,
                   syncChan, syncCallbacks, nextId, enqueued, acked, last,
                   calls, client, wgm>>

-----------------------------------------------------------------------------
(* Spec: the listener fleet, one call at a time, no sync channel set       *)

Init == InitMgr /\ syncChan = FALSE

Next ==
    \/ AddService(AddInputs)
    \/ ModifyService(ModifyInputs)
    \/ DeleteService
    \/ AddInterface
    \/ RemoveInterface
    \/ SetInterfaceIPs
    \/ Start
    \/ Stop

Spec == Init /\ [][Next]_vars

-----------------------------------------------------------------------------
(* SpecSync: catalog mutations and their sync, with the sync channel set   *)
(* and the manager idle                                                    *)

InitSync == InitMgr /\ syncChan = TRUE

NextSync ==
    \/ AddService(AddInputs)
    \/ ModifyService(SyncModifyInputs)
    \/ DeleteService
    \/ OnReconnect
    \/ ServiceSyncAck
    \/ OutboundDequeue

SpecSync == InitSync /\ [][NextSync]_vars

-----------------------------------------------------------------------------
(* Claims about the listener fleet (Spec)                                  *)

ListenersOf(id, addr) ==
    {s \in Accepting(World) : s.svc = id /\ s.addr = addr}

\* C1: while the manager is running and no call is in progress, every
\* (enabled service, registered interface) pair has exactly one accepting
\* listener, bound to the interface's IP and the service's tunnel port.
C1_OneListenerPerPair ==
    started =>
        \A id \in DOMAIN db : db[id].enabled =>
            \A n \in DOMAIN interfaces :
                Cardinality(ListenersOf(id, <<interfaces[n],
                                              db[id].tunnel_port>>)) = 1

\* C2: every accepting listener belongs to an enabled service of the catalog
\* and to an IP of the interface registry, and exists only while the manager
\* is running.
C2_ListenersJustified ==
    \A s \in Accepting(World) :
        /\ started
        /\ s.svc \in DOMAIN db
        /\ db[s.svc].enabled
        /\ s.addr[1] \in Range(interfaces)

-----------------------------------------------------------------------------
(* Claims about the sync of catalog mutations (SpecSync)                   *)

Mutations == {"add_service", "modify_service", "delete_service"}

\* C6: every successful signaling connection makes the on-connect handler
\* emit exactly one service-sync-batch with operation=sync that carries every
\* service of the catalog, also when the catalog is empty.
C6_BatchPerConnect ==
    last.op = "connect" =>
        /\ Len(last.attempts) = 1
        /\ last.attempts[1].msg.type = "service-sync-batch"
        /\ last.attempts[1].msg.operation = "sync"
        /\ last.attempts[1].msg.services = DOMAIN db

\* C7: with a sync channel set, a catalog mutation that returns success made
\* exactly one enqueue attempt of a service-sync message, and one that
\* returns an error made none.
C7_OneAttemptPerMutation ==
    (syncChan /\ last.op \in Mutations) =>
        IF last.err = "ok"
        THEN /\ Len(last.attempts) = 1
             /\ last.attempts[1].msg.type = "service-sync"
        ELSE last.attempts = <<>>

\* C8: the callback table holds an entry for message id m exactly when m was
\* enqueued successfully and no ack for m has been handled: a message dropped
\* on a full channel leaves no entry, the first ack removes the entry, and an
\* ack for an unknown id removes nothing.
C8_CallbackTable == DOMAIN syncCallbacks = enqueued \ acked

\* C8 witness: a sync was dropped on the full channel while an earlier
\* message is still waiting for its ack and another one was acknowledged.
C8_Witness ==
    /\ last.attempts # <<>>
    /\ ~last.attempts[1].queued
    /\ acked # {}
    /\ DOMAIN syncCallbacks # {}

-----------------------------------------------------------------------------
(* SpecConc: two callers, each running one add_service or modify_service   *)
(* call, their steps interleaved, after the manager was set up one call at *)
(* a time; no sync channel set                                             *)

InitConc == InitMgr /\ syncChan = FALSE

\* Before the first concurrent call the manager is set up one call at a
\* time: start, add_interface(tun0, 10.0.0.1), add_service.
NoCallYet == calls = EmptyMap

SetupStart == NoCallYet /\ Start

SetupAddInterface ==
    /\ NoCallYet
    /\ Commit(RunCall(World, NewCall("add_interface", 0,
                          [name |-> "tun0", ip |-> "10.0.0.1"], "set")))
    /\ UNCHANGED <<calls, client, wgm>>

SetupAddService == NoCallYet /\ AddService({ValidAdd("h1")})

CallAddService(c) ==
    /\ c \notin DOMAIN calls
    /\ \E id \in ServiceIds, a \in AddArgs({"h1", "h2"}) :
          calls' = Put(calls, c, NewCall("add_service", id, a, "alloc"))
    /\ UNCHANGED <<db, interfaces, servers, detached, started, ctx, pingServer,
                   syncChan, outboundChan, syncCallbacks, nextId, enqueued,
                   acked, last, client, wgm>>

CallModifyService(c) ==
    /\ c \notin DOMAIN calls
    /\ \E id \in ServiceIds,
          cfg \in {SetHost("h1"), SetHost("h2"), SetEnabled(TRUE),
                   SetEnabled(FALSE), NoConfig} :
          calls' = Put(calls, c, NewCall("modify_service", id, cfg, "update"))
    /\ UNCHANGED <<db, interfaces, servers, detached, started, ctx, pingServer,
                   syncChan, outboundChan, syncCallbacks, nextId, enqueued,
                   acked, last, client, wgm>>

\* One step of a call in progress.
CallStep(c) ==
    /\ c \in DOMAIN calls
    /\ calls[c].pc # "done"
    /\ LET r == StepCall(World, calls[c])
       IN  /\ Commit(r.w)
           /\ calls' = [calls EXCEPT ![c] = r.t]
    /\ UNCHANGED <<client, wgm>>

NextConc ==
    \/ SetupStart
    \/ SetupAddInterface
    \/ SetupAddService
    \/ \E c \in Callers : CallAddService(c)
    \/ \E c \in Callers : CallModifyService(c)
    \/ \E c \in Callers : CallStep(c)

SpecConc == InitConc /\ [][NextConc]_vars

Returned(c) == c \in DOMAIN calls /\ calls[c].pc = "done"

\* C3: all services of the catalog have pairwise different tunnel ports, also
\* when two add_service calls interleave.
C3_TunnelPortsUnique ==
    \A i, j \in DOMAIN db : i # j => db[i].tunnel_port # db[j].tunnel_port

\* C10: after two concurrent modify_service calls on the same service of a
\* running manager have both returned, every accepting listener of the
\* service proxies to the upstream of the final catalog row and, if the
\* service is enabled, each registered interface has exactly one such
\* listener.
C10_RestartsSerialized ==
    \A id \in DOMAIN db :
        (started /\ \A c \in Callers :
                            /\ Returned(c)
                            /\ calls[c].op = "modify_service"
                            /\ calls[c].err = "ok"
                            /\ calls[c].id = id)
        => /\ \A s \in Accepting(World) :
                 s.svc = id =>
                     s.target = <<db[id].local_host, db[id].local_port>>
           /\ db[id].enabled =>
                 \A n \in DOMAIN interfaces :
                     Cardinality(ListenersOf(id, <<interfaces[n],
                                                   db[id].tunnel_port>>)) = 1

-----------------------------------------------------------------------------
(* The Signaling Client.  `client.sockets` lists the WebSockets dialled so  *)
(* far ("open" or "closed" on the client's side), `client.broken` the ones  *)
(* the network or the cloud has failed, `client.procs` the goroutines in    *)
(* progress: <<"connect", 0>> for the Connect call, <<"reader", s>> for the *)
(* reader started with socket s, <<"reconnect", k>> for the reconnect       *)
(* triggered by reader k (0: by Connect).  A goroutine that returned is     *)
(* removed from procs.  `client.senders` lists the processOutboundMessages  *)
(* goroutines, one started by every successful connectOnce, each waiting   *)
(* ("idle") or holding the message it took off the channel;               *)
(* `client.wire[s]` lists the ids of the messages written to socket s, and *)
(* `client.queuedDown` the ids of the messages that were enqueued while    *)
(* the client had no socket.  `client.loops[k]` holds the local variables  *)
(* of reconnect loop k: backoff (in seconds) and attempt.                  *)

ConnectProc == <<"connect", 0>>
Reader(s) == <<"reader", s>>
Reconnect(k) == <<"reconnect", k>>

OpenSockets(cl) == {s \in 1..Len(cl.sockets) : cl.sockets[s] = "open"}
CtxDone(cl) == cl.ctx = "cancelled"
ProcsAt(cl, kind, pc) ==
    {k \in DOMAIN cl.procs : k[1] = kind /\ cl.procs[k].pc = pc}

SetProc(cl, k, pc, s) == [cl EXCEPT !.procs = Put(@, k, [pc |-> pc, s |-> s])]
EndProc(cl, k) == [cl EXCEPT !.procs = Drop(@, {k})]

\* c.conn.Close() on the installed socket, if any, and c.conn = nil.
CloseConn(cl) ==
    IF cl.conn # 0
    THEN [cl EXCEPT !.sockets = [@ EXCEPT ![cl.conn] = "closed"], !.conn = 0]
    ELSE cl

\* A variant of reconnectCloseConn that forgets the installed socket without
\* closing it (used to show that C4 depends on reconnect closing it).
reconnectDropsConn(cl) == [cl EXCEPT !.conn = 0]

\* reconnect: close the current connection before the retry loop.
reconnectCloseConn(cl) == CloseConn(cl)

\* Connect: derive the client context and enter connectOnce.
ConnectStart(cl) ==
    SetProc([cl EXCEPT !.ctx = "live", !.connectCalled = TRUE],
            ConnectProc, "dial", 0)

\* A processOutboundMessages goroutine waiting in its select.
IdleSender == [pc |-> "idle", msg |-> 0, s |-> 0]

\* connectOnce, dialer.Dial: a new open socket, or an error.  On an error
\* Connect starts reconnect in the background and returns; the reconnect
\* loop waits for its backoff.
connectOnceDial(cl, k, ok) ==
    IF ok
    THEN SetProc([cl EXCEPT !.sockets = Append(@, "open"),
                            !.wire = Append(@, <<>>)],
                 k, "install", Len(cl.sockets) + 1)
    ELSE IF k = ConnectProc
         THEN SetProc(EndProc(cl, k), Reconnect(0), "check", 0)
         ELSE SetProc(cl, k, "backoff", 0)

\* connectOnce: c.conn = conn (the on-connect handlers run in the action).
connectOnceInstall(cl, k) ==
    SetProc([cl EXCEPT !.conn = cl.procs[k].s], k, "spawn", cl.procs[k].s)

\* connectOnce: go readMessages(), go keepalive(), go
\* processOutboundMessages(), return nil.  Connect then returns; reconnect
\* returns too, which runs its deferred reset of the reconnecting flag.
connectOnceSpawn(cl, k) ==
    LET s == cl.procs[k].s
        c1 == SetProc([cl EXCEPT !.workers = @ + 1,
                                 !.senders = Append(@, IdleSender)],
                      Reader(s), "top", 0)
    IN  IF k = ConnectProc THEN EndProc(c1, k) ELSE SetProc(c1, k, "reset", 0)

\* readMessages: select on ctx.Done().
readMessagesTop(cl, k) ==
    IF CtxDone(cl) THEN EndProc(cl, k) ELSE SetProc(cl, k, "load", 0)

\* readMessages: conn := c.conn; return if nil.
readMessagesLoad(cl, k) ==
    IF cl.conn = 0 THEN EndProc(cl, k) ELSE SetProc(cl, k, "read", cl.conn)

ReadFails(cl, s) == cl.sockets[s] = "closed" \/ s \in cl.broken

\* readMessages: conn.ReadMessage().  An error starts reconnect in the
\* background and ends the reader; a message is dispatched and the loop
\* goes on.
readMessagesRead(cl, k) ==
    IF ReadFails(cl, cl.procs[k].s)
    THEN SetProc(EndProc(cl, k), Reconnect(k[2]), "check", 0)
    ELSE SetProc(cl, k, "top", 0)

\* A variant of reconnectCheck that enters the loop without looking at the
\* reconnecting flag (used to show that C18 depends on the flag).
reconnectCheckUnguarded(cl, k) ==
    SetProc([cl EXCEPT !.reconnecting = TRUE], k, "close", 0)

\* reconnect: return if already reconnecting, else set the flag.
reconnectCheck(cl, k) ==
    IF cl.reconnecting THEN EndProc(cl, k)
    ELSE SetProc([cl EXCEPT !.reconnecting = TRUE], k, "close", 0)

\* reconnect: close the connection; backoff := 1s, maxBackoff := 60s,
\* attempt := 1.
reconnectClose(cl, k) ==
    SetProc([reconnectCloseConn(cl) EXCEPT
                !.loops = Put(@, k, [backoff |-> 1, attempt |-> 1])],
            k, "loop", 0)

\* reconnect: the head of the retry loop, select on ctx.Done().
reconnectLoop(cl, k) ==
    IF CtxDone(cl) THEN SetProc(cl, k, "reset", 0) ELSE SetProc(cl, k, "dial", 0)

MaxBackoff == 60

\* A variant of reconnectBackoff that doubles the backoff without the cap
\* (used to show that C19 depends on the cap).
reconnectBackoffUncapped(cl, k, cancelled) ==
    IF cancelled THEN SetProc(cl, k, "reset", 0)
    ELSE SetProc([cl EXCEPT !.loops[k].backoff = 2 * @,
                            !.loops[k].attempt = @ + 1],
                 k, "loop", 0)

\* reconnect: select on ctx.Done() and time.After(backoff); after the wait
\* backoff *= 2, capped at maxBackoff, and attempt++.
reconnectBackoff(cl, k, cancelled) ==
    IF cancelled THEN SetProc(cl, k, "reset", 0)
    ELSE SetProc([cl EXCEPT !.loops[k].backoff =
                                IF 2 * @ > MaxBackoff THEN MaxBackoff ELSE 2 * @,
                            !.loops[k].attempt = @ + 1],
                 k, "loop", 0)

\* reconnect: the deferred c.reconnecting = false.
reconnectReset(cl, k) ==
    EndProc([cl EXCEPT !.reconnecting = FALSE, !.loops = Drop(@, {k})], k)

\* Close: c.cancel(), then close the installed socket under the mutex.
CloseCancel(cl) == [cl EXCEPT !.ctx = "cancelled", !.closing = "cancelled"]
CloseSocket(cl) == [CloseConn(cl) EXCEPT !.closing = "done"]

ClientOnly == UNCHANGED <<mgrVars, wgm>>

ClientConnect ==
    /\ ~client.connectCalled
    /\ client' = ConnectStart(client)
    /\ ClientOnly

\* A dial succeeds or fails; `n` bounds the failed attempts of one loop.
Dial(n) ==
    /\ \E k \in DOMAIN client.procs, ok \in BOOLEAN :
          /\ client.procs[k].pc = "dial"
          /\ ok => Len(client.sockets) < MaxDials
          /\ (~ok /\ k \in DOMAIN client.loops)
                => client.loops[k].attempt <= n
          /\ client' = connectOnceDial(client, k, ok)
    /\ ClientOnly

ClientDial == Dial(MaxAttempts)

ClientInstall ==
    /\ \E k \in DOMAIN client.procs :
          /\ client.procs[k].pc = "install"
          /\ client' = connectOnceInstall(client, k)
    /\ Commit(OnReconnectHandler(World))
    /\ UNCHANGED <<calls, wgm>>

ClientSpawn ==
    /\ \E k \in DOMAIN client.procs :
          /\ client.procs[k].pc = "spawn"
          /\ client' = connectOnceSpawn(client, k)
    /\ ClientOnly

ReaderTop ==
    /\ \E k \in ProcsAt(client, "reader", "top") :
          client' = readMessagesTop(client, k)
    /\ ClientOnly

ReaderLoad ==
    /\ \E k \in ProcsAt(client, "reader", "load") :
          client' = readMessagesLoad(client, k)
    /\ ClientOnly

ReaderRead ==
    /\ \E k \in ProcsAt(client, "reader", "read") :
          client' = readMessagesRead(client, k)
    /\ ClientOnly

ReconnectCheck ==
    /\ \E k \in ProcsAt(client, "reconnect", "check") :
          client' = reconnectCheck(client, k)
    /\ ClientOnly

ReconnectClose ==
    /\ \E k \in ProcsAt(client, "reconnect", "close") :
          client' = reconnectClose(client, k)
    /\ ClientOnly

ReconnectLoop ==
    /\ \E k \in ProcsAt(client, "reconnect", "loop") :
          client' = reconnectLoop(client, k)
    /\ ClientOnly

ReconnectBackoff ==
    /\ \E k \in ProcsAt(client, "reconnect", "backoff"),
          cancelled \in BOOLEAN :
          /\ cancelled => CtxDone(client)
          /\ client' = reconnectBackoff(client, k, cancelled)
    /\ ClientOnly

ReconnectReset ==
    /\ \E k \in ProcsAt(client, "reconnect", "reset") :
          client' = reconnectReset(client, k)
    /\ ClientOnly

\* Close is deferred by the program's main function: it runs after Connect
\* has returned.
ClientCloseCancel ==
    /\ client.connectCalled
    /\ ConnectProc \notin DOMAIN client.procs
    /\ client.closing = "no"
    /\ client' = CloseCancel(client)
    /\ ClientOnly

ClientCloseSocket ==
    /\ client.closing = "cancelled"
    /\ client' = CloseSocket(client)
    /\ ClientOnly

\* keepalive and processOutboundMessages return on ctx.Done().
WorkersExit ==
    /\ client.workers > 0
    /\ CtxDone(client)
    /\ client' = [client EXCEPT !.workers = @ - 1]
    /\ ClientOnly

\* The network or the cloud fails an open socket.
BreakSocket ==
    /\ \E s \in OpenSockets(client) \ client.broken :
          client' = [client EXCEPT !.broken = @ \cup {s}]
    /\ ClientOnly

InitSig == InitMgr /\ syncChan = TRUE

NextSig ==
    \/ ClientConnect
    \/ ClientDial
    \/ ClientInstall
    \/ ClientSpawn
    \/ ReaderTop
    \/ ReaderLoad
    \/ ReaderRead
    \/ ReconnectCheck
    \/ ReconnectClose
    \/ ReconnectLoop
    \/ ReconnectBackoff
    \/ ReconnectReset
    \/ ClientCloseCancel
    \/ ClientCloseSocket
    \/ WorkersExit
    \/ BreakSocket

SpecSig == InitSig /\ [][NextSig]_vars

\* C4: the signaling client holds at most one open WebSocket at any
\* instant, under every interleaving of connect, the reader's error path,
\* reconnect and close.
C4_OneOpenSocket == Cardinality(OpenSockets(client)) <= 1

\* C4 witness: a reconnect has installed a new socket after the socket
\* installed before it was closed.
C4_Witness ==
    /\ client.conn # 0
    /\ client.sockets[client.conn] = "open"
    /\ \E s \in 1..Len(client.sockets) :
          s # client.conn /\ client.sockets[s] = "closed"

\* C5: while the lifecycle context is not cancelled, a client that holds a
\* socket has a reader running or a connect / reconnect in progress that
\* will start one; it is never left with a socket that has neither (a state
\* no step of the client leaves, so the client would stay in it forever).
C5_ReaderOrReconnect ==
    (client.connectCalled /\ client.ctx = "live" /\ client.conn # 0)
        => DOMAIN client.procs # {}

-----------------------------------------------------------------------------
(* The wireguard Manager.  `wgm.clientPeers` is the peer table (peer id ->  *)
(* PeerConfig), `wgm.wgConns` the session table (peer id -> session),       *)
(* `wgm.sessions` every WireGuardPeerToPeer created so far, `wgm.notifs`    *)
(* the interface notifications started in a goroutine and not yet run,      *)
(* `wgm.reply` the type, addressee and data of the last signaling message   *)
(* the manager sent (a connect response carries the index and the addresses *)
(* of the peer, an answer the session description), `wgm.found` what the    *)
(* last connect-request found for its sender: an entry of the peer table,   *)
(* a session.  Peer id 0 is the empty id, Absent the missing `from` field   *)
(* of a message.  An IP is the tuple of its octets, <<>> the empty string.  *)
(*                                                                         *)
(* A session records the connection state its callback stored (`state`),   *)
(* whether its peer connection is open (`open`), the ready state of its    *)
(* data channel (`dc`), whether p.tunDevice / p.wgDevice are set (`tunSet`, *)
(* `wgSet`) and the device is open (`tun`, `wg`), and the position of the   *)
(* goroutine that the data channel's OnOpen starts (`task`).  `wgm.td` is   *)
(* the closeConnectionFromPeer call in progress (it holds the manager's     *)
(* mutex): its session, its position and the interface name that close()   *)
(* captured.  `wgm.panicked` is set when a handler dereferenced a nil       *)
(* pointer.                                                                *)

PeerIds == 1..MaxPeers
Absent == -1
NoIP == <<>>

\* fmt.Sprintf("10.0.%d.2", index) / fmt.Sprintf("10.0.%d.1", index)
generateIP(index, isClient) == <<10, 0, index, IF isClient THEN 2 ELSE 1>>

\* The smallest index below the limit that no peer uses, 0 if there is none.
findAvailableIndex(m) ==
    LET used == {m.clientPeers[p].index : p \in DOMAIN m.clientPeers}
        free == (0..(IndexLimit - 1)) \ used
    IN  IF free = {} THEN 0 ELSE Min(free)

\* createTunNameFromPeerID
TunName(id) == <<"arqut", id>>

\* closeConnectionFromPeer, with the mutex taken and a session found.
closeBegin(m, id) ==
    [m EXCEPT !.td = [sid |-> m.wgConns[id], pc |-> "name", name |-> FALSE]]

\* WireGuardPeerToPeer.close, statement by statement, and the rest of
\* closeConnectionFromPeer: the name of the TUN device is read if the field
\* is set ("name"), the bind and the peer connection are closed ("conn"),
\* then the WireGuard device ("wg") and the TUN device ("tun"), each if its
\* field is set; the session is deleted from wgConns and the peer from
\* clientPeers, and the network service is notified when the TUN field is
\* set ("delete").
closeStep(m) ==
    LET sid == m.td.sid
        s == m.sessions[sid]
    IN  CASE m.td.pc = "name" ->
                [m EXCEPT !.td.name = s.tunSet, !.td.pc = "conn"]
          [] m.td.pc = "conn" ->
                [m EXCEPT !.sessions[sid].open = FALSE, !.td.pc = "wg"]
          [] m.td.pc = "wg" ->
                [m EXCEPT !.sessions[sid].wg = FALSE, !.td.pc = "tun"]
          [] m.td.pc = "tun" ->
                [m EXCEPT !.sessions[sid].tun = FALSE, !.td.pc = "delete"]
          [] m.td.pc = "delete" ->
                [m EXCEPT !.wgConns = Drop(@, {s.peer}),
                          !.clientPeers = Drop(@, {s.peer}),
                          !.notifs = IF s.tunSet
                                     THEN @ \cup {[kind |-> "removed",
                                                   name |-> TunName(s.peer),
                                                   ip |-> NoIP]}
                                     ELSE @,
                          !.td = NoTeardown]

\* closeConnectionFromPeer: if a session of the peer exists, close it,
\* delete it from wgConns and the peer from clientPeers, and notify the
\* network service when the session had a TUN device.
closeConnectionFromPeer(m, id) ==
    IF id \notin DOMAIN m.wgConns THEN m
    ELSE closeStep(closeStep(closeStep(closeStep(closeStep(closeBegin(m, id))))))

\* A variant of handleConnectRequestInner that does not copy the index and
\* the addresses of a known peer (used to show that C22 depends on the copy).
handleConnectRequestNoCopy(m, payload, resType) ==
    LET id == payload.id
        exist == id \in DOMAIN m.clientPeers
        m1 == IF exist THEN closeConnectionFromPeer(m, id) ELSE m
        idx == findAvailableIndex(m1)
        p2 == IF payload.edge_ip = NoIP
              THEN [payload EXCEPT !.index = idx,
                                   !.edge_ip = generateIP(idx, FALSE),
                                   !.client_ip = generateIP(idx, TRUE)]
              ELSE payload
    IN  [m1 EXCEPT !.clientPeers = Put(@, id, p2),
                   !.found = [peer |-> exist, session |-> id \in DOMAIN m.wgConns],
                   !.reply = [type |-> resType, to |-> id,
                              data |-> [index |-> p2.index,
                                        client_ip |-> p2.client_ip,
                                        edge_ip |-> p2.edge_ip]]]

\* handleConnectRequestInner: the peer is the decoded payload; a known peer
\* keeps its index and IPs and loses its session; a peer without edge_ip
\* gets the next free index and the IPs of that index.
handleConnectRequestInner(m, payload, resType) ==
    LET id == payload.id
        exist == id \in DOMAIN m.clientPeers
        p1 == IF exist
              THEN [payload EXCEPT !.index = m.clientPeers[id].index,
                                   !.edge_ip = m.clientPeers[id].edge_ip,
                                   !.client_ip = m.clientPeers[id].client_ip]
              ELSE payload
        m1 == IF exist THEN closeConnectionFromPeer(m, id) ELSE m
        idx == findAvailableIndex(m1)
        p2 == IF p1.edge_ip = NoIP
              THEN [p1 EXCEPT !.index = idx,
                              !.edge_ip = generateIP(idx, FALSE),
                              !.client_ip = generateIP(idx, TRUE)]
              ELSE p1
    IN  [m1 EXCEPT !.clientPeers = Put(@, id, p2),
                   !.found = [peer |-> exist, session |-> id \in DOMAIN m.wgConns],
                   !.reply = [type |-> resType, to |-> id,
                              data |-> [index |-> p2.index,
                                        client_ip |-> p2.client_ip,
                                        edge_ip |-> p2.edge_ip]]]

\* handleOffer: fail is the step of the handler that fails, "none" if none.
handleOffer(m, from, fail) ==
    IF from = Absent THEN [m EXCEPT !.panicked = TRUE]
    ELSE IF from = 0 THEN m
    ELSE IF from \in DOMAIN m.wgConns
            /\ m.sessions[m.wgConns[from]].state = "connected" THEN m
    ELSE LET m1 == closeConnectionFromPeer(m, from)
             sid == Len(m1.sessions) + 1
             m2 == [m1 EXCEPT !.sessions =
                                 Append(@, [peer |-> from, state |-> "new",
                                            tun |-> FALSE, open |-> TRUE,
                                            dc |-> "none", task |-> "none",
                                            tunSet |-> FALSE, wg |-> FALSE,
                                            wgSet |-> FALSE]),
                              !.wgConns = Put(@, from, sid)]
         IN  IF from \notin DOMAIN m1.clientPeers THEN m1
             ELSE IF fail = "create" THEN m1
             ELSE IF fail = "answer" THEN m2
             ELSE [m2 EXCEPT !.reply = [type |-> "answer", to |-> from,
                                        data |-> Nil]]

\* OnConnectionStateChange of session sid: record the state; Closed,
\* Disconnected and Failed tear down the session of the peer.
OnConnectionStateChange(m, sid, state) ==
    LET m1 == [m EXCEPT !.sessions[sid].state = state]
    IN  IF state \in {"closed", "disconnected", "failed"}
        THEN closeConnectionFromPeer(m1, m.sessions[sid].peer)
        ELSE m1

\* dc.OnOpen: the data channel is open; the goroutine of the callback
\* starts with its settle delay.
onOpen(m, sid) ==
    [m EXCEPT !.sessions[sid].dc = "open", !.sessions[sid].task = "settle"]

Stable(s) == s.dc = "open" /\ s.state = "connected"

\* The goroutine of OnOpen, after the delay: it returns unless the channel
\* is open and the stored connection state Connected, and sets up the
\* devices only if p.wgDevice is nil.
taskSettle(m, sid) ==
    LET s == m.sessions[sid]
    IN  [m EXCEPT !.sessions[sid].task =
                      IF Stable(s) /\ ~s.wgSet THEN "create" ELSE "done"]

\* setupWireGuardConn: createTUNInterface and device.NewDevice; p.tunDevice
\* and p.wgDevice are set.  A failing createTUNInterface returns the error.
taskCreate(m, sid, ok) ==
    IF ok THEN [m EXCEPT !.sessions[sid].tunSet = TRUE,
                         !.sessions[sid].tun = TRUE,
                         !.sessions[sid].wgSet = TRUE,
                         !.sessions[sid].wg = TRUE,
                         !.sessions[sid].task = "up"]
    ELSE [m EXCEPT !.sessions[sid].task = "done"]

\* setupWireGuardConn: ParseKey, IpcSet and Up; on an error cleanup() closes
\* both devices and clears the fields.
taskUp(m, sid, ok) ==
    IF ok THEN [m EXCEPT !.sessions[sid].task = "announce"]
    ELSE [m EXCEPT !.sessions[sid].tunSet = FALSE,
                   !.sessions[sid].tun = FALSE,
                   !.sessions[sid].wgSet = FALSE,
                   !.sessions[sid].wg = FALSE,
                   !.sessions[sid].task = "done"]

\* The callback of setupWireGuardConn: the interface is announced
\* (connectCallback of handleOffer, notifyInterfaceAdded) only if the
\* channel is still open and the stored connection state Connected.
taskAnnounce(m, sid) ==
    LET s == m.sessions[sid]
        ip == IF s.peer \in DOMAIN m.clientPeers
              THEN m.clientPeers[s.peer].edge_ip ELSE NoIP
    IN  [m EXCEPT !.sessions[sid].task = "done",
                  !.notifs = IF Stable(s)
                             THEN @ \cup {[kind |-> "added",
                                           name |-> TunName(s.peer),
                                           ip |-> ip]}
                             ELSE @]

\* The data channel opened and the session is still Connected after the
\* settle delay: bring up the TUN device and announce the interface.
OnDataChannelOpen(m, sid) ==
    taskAnnounce(
        taskUp(taskCreate(taskSettle(onOpen(m, sid), sid), sid, TRUE),
               sid, TRUE),
        sid)

\* DisconnectPeer: an error if the peer has no session.
DisconnectPeer(m, id) ==
    IF id \notin DOMAIN m.wgConns THEN m ELSE closeConnectionFromPeer(m, id)

PeersOnly == UNCHANGED <<mgrVars, client>>

\* connect-request payloads: one with the id only, and one that also carries
\* an index and its addresses.
Payload(id, index, edge_ip, client_ip) ==
    [id |-> id, index |-> index, edge_ip |-> edge_ip, client_ip |-> client_ip]

Payloads ==
    {Payload(id, 0, a[1], a[2]) :
        id \in PeerIds,
        a \in {<<NoIP, NoIP>>, <<generateIP(0, FALSE), generateIP(0, TRUE)>>}}

ConnectRequest ==
    /\ \E payload \in Payloads,
          resType \in {"connect-response", "api-connect-response"} :
          wgm' = handleConnectRequestInner(wgm, payload, resType)
    /\ PeersOnly

Offer ==
    /\ \E from \in 0..MaxPeers, fail \in {"none", "create", "answer"} :
          /\ Len(wgm.sessions) < MaxSessions
          /\ wgm' = handleOffer(wgm, from, fail)
    /\ PeersOnly

\* A session reports a new connection state; a closed peer connection only
\* reports Closed, and Closed is final.
ConnectionStateChange ==
    /\ \E sid \in 1..Len(wgm.sessions),
          state \in {"connected", "disconnected", "failed", "closed"} :
          /\ wgm.sessions[sid].state # "closed"
          /\ wgm.sessions[sid].state # state
          /\ ~wgm.sessions[sid].open => state = "closed"
          /\ wgm' = OnConnectionStateChange(wgm, sid, state)
    /\ PeersOnly

DataChannelOpen ==
    /\ \E sid \in 1..Len(wgm.sessions) :
          /\ wgm.sessions[sid].open
          /\ wgm.sessions[sid].state = "connected"
          /\ ~wgm.sessions[sid].tun
          /\ wgm' = OnDataChannelOpen(wgm, sid)
    /\ PeersOnly

PeerDisconnect ==
    /\ \E id \in PeerIds : wgm' = DisconnectPeer(wgm, id)
    /\ PeersOnly

\* A notification goroutine runs: AddInterface / RemoveInterface of the
\* Service Manager.
Notify ==
    /\ \E n \in wgm.notifs :
          /\ wgm' = [wgm EXCEPT !.notifs = @ \ {n}]
          /\ IF n.kind = "added"
             THEN Commit(RunCall(World, NewCall("add_interface", 0,
                                    [name |-> n.name, ip |-> n.ip], "set")))
             ELSE Commit(RunCall(World, NewCall("remove_interface", 0,
                                    [name |-> n.name, ip |-> NoIP],
                                    "del")))
    /\ UNCHANGED <<calls, client>>

InitPeers == InitMgr /\ syncChan = FALSE

NextPeers ==
    \/ ConnectRequest
    \/ Offer
    \/ ConnectionStateChange
    \/ DataChannelOpen
    \/ PeerDisconnect
    \/ Notify

SpecPeers == InitPeers /\ [][NextPeers]_vars

\* C9: any two distinct peers of the peer table have different index, and
\* every peer has edge_ip = 10.0.<index>.1 and client_ip = 10.0.<index>.2,
\* whatever fields the connect-request payloads carried.
C9_PeerAddressing ==
    \A p \in DOMAIN wgm.clientPeers :
        /\ wgm.clientPeers[p].edge_ip
              = generateIP(wgm.clientPeers[p].index, FALSE)
        /\ wgm.clientPeers[p].client_ip
              = generateIP(wgm.clientPeers[p].index, TRUE)
        /\ \A q \in DOMAIN wgm.clientPeers :
              p # q => wgm.clientPeers[p].index # wgm.clientPeers[q].index

-----------------------------------------------------------------------------
(* SpecModify: the catalog under add, modify and delete, one call at a     *)
(* time, where `last` also records the configuration a modify_service call *)
(* was given and the catalog it found                                      *)

\* GetService: the row of the id, or an error when there is none.
GetService(w, id) ==
    IF id \in DOMAIN w.db THEN [err |-> "ok", row |-> w.db[id]]
    ELSE [err |-> "notfound", row |-> NoRow]

\* ProxyServiceConfig values: none, one or two of the four optional fields,
\* each supplied field with a valid or an invalid value.
Config(has, name, host, port, enabled) ==
    [has |-> has,
     name |-> IF "name" \in has THEN name ELSE "",
     local_host |-> IF "local_host" \in has THEN host ELSE "",
     local_port |-> IF "local_port" \in has THEN port ELSE 0,
     enabled |-> IF "enabled" \in has THEN enabled ELSE FALSE]

Configs ==
    {Config(has, n, h, p, e) :
        has \in {h \in SUBSET {"name", "local_host", "local_port", "enabled"} :
                      Cardinality(h) <= MaxFields},
        n \in {"", "api"}, h \in {"", "h2"}, p \in {0, 81, 65536},
        e \in BOOLEAN}

\* EnableService / DisableService: ModifyService with Enabled only.
EnableService(w, id) ==
    RunSteps(w, NewCall("modify_service", id, SetEnabled(TRUE), "update"))
DisableService(w, id) ==
    RunSteps(w, NewCall("modify_service", id, SetEnabled(FALSE), "update"))

Modified(w, r, id, cfg) ==
    [r.w EXCEPT !.last = [op |-> "modify_service", id |-> id,
                          err |-> r.t.err, attempts |-> r.t.attempts,
                          arg |-> cfg, before |-> w.db]]

ModifyAny ==
    /\ \E id \in ServiceIds,
          cfg \in Configs \ {SetEnabled(TRUE), SetEnabled(FALSE)} :
          Commit(Modified(World,
                          RunSteps(World, NewCall("modify_service", id, cfg,
                                                  "update")),
                          id, cfg))
    /\ UNCHANGED <<calls, client, wgm>>

Enable ==
    /\ \E id \in ServiceIds :
          Commit(Modified(World, EnableService(World, id), id,
                          SetEnabled(TRUE)))
    /\ UNCHANGED <<calls, client, wgm>>

Disable ==
    /\ \E id \in ServiceIds :
          Commit(Modified(World, DisableService(World, id), id,
                          SetEnabled(FALSE)))
    /\ UNCHANGED <<calls, client, wgm>>

InitModify == InitMgr /\ syncChan = FALSE

NextModify ==
    \/ AddService(AddInputs)
    \/ ModifyAny
    \/ Enable
    \/ Disable
    \/ DeleteService

SpecModify == InitModify /\ [][NextModify]_vars

\* The row a successful modify_service must leave: the supplied fields with
\* their new values, every other field as it was.
Expected(row, cfg) ==
    [name |-> IF "name" \in cfg.has THEN cfg.name ELSE row.name,
     tunnel_port |-> row.tunnel_port,
     local_host |-> IF "local_host" \in cfg.has
                    THEN cfg.local_host ELSE row.local_host,
     local_port |-> IF "local_port" \in cfg.has
                    THEN cfg.local_port ELSE row.local_port,
     protocol |-> row.protocol,
     enabled |-> IF "enabled" \in cfg.has THEN cfg.enabled ELSE row.enabled]

\* C11: after a modify_service (or enable / disable) call that returned
\* success, get(id) returns the row with every supplied field at its new
\* value and every other field unchanged; after one that returned an error
\* the catalog is as it was before the call.
C11_ModifyReflected ==
    last.op = "modify_service" =>
        IF last.err = "ok"
        THEN /\ GetService(World, last.id).err = "ok"
             /\ last.id \in DOMAIN last.before
             /\ GetService(World, last.id).row
                   = Expected(last.before[last.id], last.arg)
             /\ Drop(db, {last.id}) = Drop(last.before, {last.id})
        ELSE db = last.before

-----------------------------------------------------------------------------
(* Claims about the interface registry and the manager's lifecycle (Spec)  *)

\* C12: when set_interface_ips(M) has returned on a running manager, no
\* listener is accepting on an IP that is not in M and every enabled service
\* has a listener on every IP of M.
C12_SetInterfaceIPsReconciles ==
    (last.op = "set_interface_ips" /\ started) =>
        /\ \A s \in Accepting(World) : s.addr[1] \in Range(interfaces)
        /\ \A id \in DOMAIN db : db[id].enabled =>
              \A ip \in Range(interfaces) :
                  \E s \in Accepting(World) :
                      s.svc = id /\ s.addr = <<ip, db[id].tunnel_port>>

AcceptingNext == Range(servers') \cup detached'

Fleet == <<db, interfaces, servers, detached, started, ctx, pingServer>>

-----------------------------------------------------------------------------
(* SpecStop: stop() racing with one add_service, modify_service or         *)
(* add_interface call on a manager that was set up and started one call at *)
(* a time.  The last caller calls stop(), the others make the racing calls. *)
(* The next start() is taken when no call is in progress and the servers   *)
(* of the cancelled context have shut down, so that a server serving under *)
(* a cancelled context is always one of the context stop() cancelled.      *)

StopCaller == NCallers

CallAddInterface(c) ==
    /\ c \notin DOMAIN calls
    /\ calls' = Put(calls, c, NewCall("add_interface", 0,
                                      [name |-> "tun1", ip |-> "10.0.1.1"],
                                      "set"))
    /\ UNCHANGED <<db, interfaces, servers, detached, started, ctx, pingServer,
                   syncChan, outboundChan, syncCallbacks, nextId, enqueued,
                   acked, last, client, wgm>>

CallStop(c) ==
    /\ c \notin DOMAIN calls
    /\ calls' = Put(calls, c, NewCall("stop", 0, Nil, "flag"))
    /\ UNCHANGED <<db, interfaces, servers, detached, started, ctx, pingServer,
                   syncChan, outboundChan, syncCallbacks, nextId, enqueued,
                   acked, last, client, wgm>>

\* The second goroutine of a server (or of the ping server) returns from
\* <-ctx.Done() and shuts its server down.
CtxDoneShutdown ==
    /\ \/ \E s \in ctxDoneShutdown(World) :
             /\ servers' = Drop(servers, {k \in DOMAIN servers : servers[k] = s})
             /\ detached' = detached \ {s}
             /\ UNCHANGED pingServer
       \/ /\ ctx = "cancelled"
          /\ pingServer
          /\ pingServer' = FALSE
          /\ UNCHANGED <<servers, detached>>
    /\ UNCHANGED <<db, interfaces, started, ctx, syncChan, outboundChan,
                   syncCallbacks, nextId, enqueued, acked, last, calls,
                   client, wgm>>

AllReturned == \A c \in DOMAIN calls : calls[c].pc = "done"

StopReturned == Returned(StopCaller) /\ calls[StopCaller].op = "stop"

Quiet == Accepting(World) = {} /\ ~pingServer

NextStart == StopReturned /\ AllReturned /\ ~started /\ Quiet /\ Start

InitStop == InitMgr /\ syncChan = FALSE

NextStop ==
    \/ SetupStart
    \/ SetupAddInterface
    \/ SetupAddService
    \/ \E c \in Callers \ {StopCaller} : CallAddService(c)
    \/ \E c \in Callers \ {StopCaller} : CallModifyService(c)
    \/ \E c \in Callers \ {StopCaller} : CallAddInterface(c)
    \/ CallStop(StopCaller)
    \/ \E c \in Callers : CallStep(c)
    \/ CtxDoneShutdown
    \/ NextStart

\* Every goroutine that is ready to run is scheduled eventually.
SpecStop == InitStop /\ [][NextStop]_vars /\ WF_vars(CtxDoneShutdown)

-----------------------------------------------------------------------------
(* Further claims about the Signaling Client (SpecSig)                     *)

\* C15: once close() has returned and every goroutine of the client (the
\* reconnect loop with its attempt in flight, the readers) has finished,
\* the client holds no open socket, also when close() was called while a
\* reconnect attempt was dialing.
C15_CloseReleasesSocket ==
    (client.closing = "done" /\ DOMAIN client.procs = {}) =>
        /\ OpenSockets(client) = {}
        /\ client.conn = 0

-----------------------------------------------------------------------------
(* SpecOut: the outbound channel and the processOutboundMessages           *)
(* goroutines of a client that connects, loses its socket and reconnects,  *)
(* while the Service Manager (with one service in its catalog) enqueues    *)
(* sync messages                                                           *)

Senders(cl, pc) == {i \in 1..Len(cl.senders) : cl.senders[i].pc = pc}

\* processOutboundMessages: msg := <-c.outboundChan
processOutboundReceive(cl, i, msg) ==
    [cl EXCEPT !.senders[i] = [pc |-> "load", msg |-> msg.message_id, s |-> 0],
               !.dequeuedDown = IF cl.conn = 0 THEN @ \cup {msg.message_id}
                                ELSE @]

\* processOutboundMessages / SendMessage: with c.conn == nil the message is
\* skipped, otherwise SendMessage goes on to write to the socket it read.
processOutboundLoad(cl, i) ==
    IF cl.conn = 0 THEN [cl EXCEPT !.senders[i] = IdleSender]
    ELSE [cl EXCEPT !.senders[i].pc = "write", !.senders[i].s = cl.conn]

\* SendMessage: conn.WriteMessage under the mutex; a write to a closed or
\* failed socket returns an error and the message is logged and gone.
SendMessage(cl, i) ==
    LET s == cl.senders[i].s
    IN  IF ReadFails(cl, s) THEN [cl EXCEPT !.senders[i] = IdleSender]
        ELSE [cl EXCEPT !.senders[i] = IdleSender,
                        !.wire[s] = Append(@, cl.senders[i].msg)]

SenderReceive ==
    /\ outboundChan # <<>>
    /\ \E i \in Senders(client, "idle") :
          client' = processOutboundReceive(client, i, Head(outboundChan))
    /\ outboundChan' = Tail(outboundChan)
    /\ UNCHANGED <<db, interfaces, servers, detached, started, ctx, pingServer,
                   syncChan, syncCallbacks, nextId, enqueued, acked, last,
                   calls, wgm>>

SenderLoad ==
    /\ \E i \in Senders(client, "load") :
          client' = processOutboundLoad(client, i)
    /\ ClientOnly

SenderWrite ==
    /\ \E i \in Senders(client, "write") : client' = SendMessage(client, i)
    /\ ClientOnly

\* A modify_service call of the API (enable of service 1): its sync message
\* is enqueued on the outbound channel, or dropped when the channel is full.
EnableWhileConnecting ==
    /\ IdsLeft
    /\ LET w2 == RunCall(World, NewCall("modify_service", 1, SetEnabled(TRUE),
                                        "update"))
           att == w2.last.attempts
       IN  /\ Commit(w2)
           /\ client' = [client EXCEPT !.queuedDown =
                            IF client.conn = 0 /\ att # <<>> /\ att[1].queued
                            THEN @ \cup {att[1].msg.message_id} ELSE @]
    /\ UNCHANGED <<calls, wgm>>

\* The agent starts with the catalog an earlier run has stored: service 1.
InitOut ==
    /\ db = (1 :> [name |-> "web", tunnel_port |-> PortRangeStart,
                   local_host |-> "h1", local_port |-> 80,
                   protocol |-> "http", enabled |-> TRUE])
    /\ interfaces = EmptyMap
    /\ servers = EmptyMap
    /\ detached = {}
    /\ started = FALSE
    /\ ctx = "nil"
    /\ pingServer = FALSE
    /\ syncChan = TRUE
    /\ outboundChan = <<>>
    /\ syncCallbacks = EmptyMap
    /\ nextId = 1
    /\ enqueued = {}
    /\ acked = {}
    /\ last = NoCall
    /\ calls = EmptyMap
    /\ client = InitClient
    /\ wgm = InitManager

NextOut ==
    \/ ClientConnect
    \/ Dial(1)
    \/ ClientInstall
    \/ ClientSpawn
    \/ ReaderTop
    \/ ReaderLoad
    \/ ReaderRead
    \/ ReconnectCheck
    \/ ReconnectClose
    \/ ReconnectLoop
    \/ ReconnectBackoff
    \/ ReconnectReset
    \/ BreakSocket
    \/ EnableWhileConnecting
    \/ SenderReceive
    \/ SenderLoad
    \/ SenderWrite

SpecOut == InitOut /\ [][NextOut]_vars

\* C16: the messages written to one socket were written in the order in
\* which they were enqueued (message ids are handed out in enqueue order),
\* also on a socket that a reconnect established.
C16_OutboundOrder ==
    \A s \in 1..Len(client.wire) :
        \A i, j \in 1..Len(client.wire[s]) :
            i < j => client.wire[s][i] < client.wire[s][j]

InChannel(mid) == \E i \in 1..Len(outboundChan) : outboundChan[i].message_id = mid
Held(mid) ==
    \E i \in 1..Len(client.senders) :
        client.senders[i].pc # "idle" /\ client.senders[i].msg = mid
Written(mid) ==
    \E s \in 1..Len(client.wire) :
        \E i \in 1..Len(client.wire[s]) : client.wire[s][i] = mid

\* C17: a message that was enqueued on the outbound channel while the client
\* had no socket is still in the channel, or held by the goroutine that is
\* writing it, or was written to a socket: it is never dropped.
C17_QueueSurvivesDisconnect ==
    \A mid \in client.queuedDown : InChannel(mid) \/ Held(mid) \/ Written(mid)

-----------------------------------------------------------------------------
(* Claims about the reconnect loop (SpecSig)                               *)

\* The reconnect goroutines that have passed the check of the reconnecting
\* flag and have not returned yet.
ActiveLoops(cl) ==
    {k \in DOMAIN cl.procs : k[1] = "reconnect" /\ cl.procs[k].pc # "check"}

\* The goroutines inside connectOnce.
Connecting(cl) ==
    {k \in DOMAIN cl.procs : cl.procs[k].pc \in {"dial", "install", "spawn"}}

\* C18: at any instant at most one reconnect loop is active and at most one
\* connection attempt is in progress: a trigger that arrives while a loop is
\* active starts no second loop and dials no second socket.
C18_OneReconnectLoop ==
    /\ Cardinality(ActiveLoops(client)) <= 1
    /\ Cardinality(Connecting(client)) <= 1
    /\ ActiveLoops(client) # {} => client.reconnecting

\* C18 witness: a second trigger is at the check of the flag while a
\* reconnect loop is active.
C18_Witness ==
    /\ ActiveLoops(client) # {}
    /\ \E k \in DOMAIN client.procs :
          k[1] = "reconnect" /\ client.procs[k].pc = "check"

\* C19: in a reconnect loop the wait that follows the k-th consecutive
\* failed attempt is min(2^(k-1), 60) seconds, so every loop, also the one
\* that follows a successful connection, starts at 1 second.
C19_Backoff ==
    \A k \in DOMAIN client.loops :
        LET a == client.loops[k].attempt
        IN  client.loops[k].backoff
               = IF 2^(a - 1) < MaxBackoff THEN 2^(a - 1) ELSE MaxBackoff

\* C19 witness: a loop that follows a successful connection started over at
\* 1 second and is waiting 60 seconds after its eighth failed attempt.
C19_Witness ==
    \E k \in DOMAIN client.loops :
        /\ k[2] # 0
        /\ client.procs[k].pc = "backoff"
        /\ client.loops[k].attempt = 8
        /\ client.loops[k].backoff = MaxBackoff

-----------------------------------------------------------------------------
(* Claims about the port allocator (Spec)                                  *)

\* The ports of the configured range that are no tunnel port of the catalog
\* and on which a TCP bind succeeds.
Allocatable ==
    {p \in PortRangeStart..PortRangeEnd :
        p \notin UsedPorts(World) /\ PortFree(World, p)}

\* C20: an add_service that succeeds gives the new service the lowest port
\* of the configured range that was no tunnel port of the catalog and on
\* which a bind succeeded; an add_service fails with the exhaustion error
\* exactly when its input is valid and the range has no such port, and then
\* it changes nothing.
C20_AllocatePort ==
    [][last'.op = "add_service" =>
          /\ last'.err = "ok" =>
                /\ Allocatable # {}
                /\ last'.id \in DOMAIN db' \ DOMAIN db
                /\ db'[last'.id].tunnel_port = Min(Allocatable)
          /\ last'.err = "exhausted" =>
                /\ Allocatable = {}
                /\ UNCHANGED Fleet
          /\ Allocatable = {} => last'.err \in {"invalid", "exhausted"}
          /\ \A id \in DOMAIN db' :
                db'[id].tunnel_port \in PortRangeStart..PortRangeEnd]_vars

\* C20 witness: an add_service was given the second port of the range
\* although the first is no tunnel port of the catalog, because a listener
\* still holds the first.
C20_Witness ==
    /\ last.op = "add_service"
    /\ last.err = "ok"
    /\ db[last.id].tunnel_port = PortRangeStart + 1
    /\ PortRangeStart \notin UsedPorts(World)
    /\ ~PortFree(World, PortRangeStart)

-----------------------------------------------------------------------------
(* Claims about the peer table (SpecPeers)                                 *)

UsedIndices(m) == {m.clientPeers[p].index : p \in DOMAIN m.clientPeers}

\* C21: a connect-request of a peer that is not in the peer table gives the
\* peer the smallest index in [0,255) that no peer of the table uses (0 when
\* all 255 are in use) and the addresses of that index, so that the first
\* peer gets index 0, edge_ip 10.0.0.1 and client_ip 10.0.0.2.
C21_IndexAllocation ==
    [][\A id \in PeerIds :
          (id \notin DOMAIN wgm.clientPeers /\ id \in DOMAIN wgm'.clientPeers)
          => LET p == wgm'.clientPeers[id]
                 free == (0..(IndexLimit - 1)) \ UsedIndices(wgm)
             IN  /\ IF free = {} THEN p.index = 0
                    ELSE p.index \in free /\ \A i \in free : p.index <= i
                 /\ p.edge_ip = <<10, 0, p.index, 1>>
                 /\ p.client_ip = <<10, 0, p.index, 2>>
                 /\ wgm.clientPeers = EmptyMap => p.index = 0]_vars

\* C22: a connect-request or api-connect-request for an id of the peer table
\* is answered with the index, edge_ip and client_ip the peer had, in a
\* connect-response or api-connect-response respectively; when it has been
\* handled the id has no session and the peer is in the peer table with the
\* same index and addresses.
C22_Reregistration ==
    [][\A payload \in Payloads,
          resType \in {"connect-response", "api-connect-response"} :
          (/\ payload.id \in DOMAIN wgm.clientPeers
           /\ wgm' = handleConnectRequestInner(wgm, payload, resType))
          => LET id == payload.id
                 old == wgm.clientPeers[id]
             IN  /\ wgm'.reply.type = resType
                 /\ wgm'.reply.to = id
                 /\ wgm'.reply.data = [index |-> old.index,
                                       client_ip |-> old.client_ip,
                                       edge_ip |-> old.edge_ip]
                 /\ id \notin DOMAIN wgm'.wgConns
                 /\ \A sid \in 1..Len(wgm'.sessions) :
                       wgm'.sessions[sid].peer = id => ~wgm'.sessions[sid].open
                 /\ id \in DOMAIN wgm'.clientPeers
                 /\ wgm'.clientPeers[id].index = old.index
                 /\ wgm'.clientPeers[id].edge_ip = old.edge_ip
                 /\ wgm'.clientPeers[id].client_ip = old.client_ip]_vars

\* C22 witness: a connect-request of a registered peer that had a session
\* with a TUN device was answered: the session is closed, the removal of its
\* interface is under way and the peer is registered.
C22_Witness ==
    \E id \in DOMAIN wgm.clientPeers :
        /\ wgm.reply.type \in {"connect-response", "api-connect-response"}
        /\ wgm.reply.to = id
        /\ wgm.found.peer
        /\ wgm.found.session
        /\ id \notin DOMAIN wgm.wgConns
        /\ \E sid \in 1..Len(wgm.sessions) :
              wgm.sessions[sid].peer = id /\ ~wgm.sessions[sid].open
        /\ \E n \in wgm.notifs : n.kind = "removed" /\ n.name = TunName(id)

\* C23: an offer from a registered peer whose session is Connected is
\* ignored: session table, peer table, pending interface notifications and
\* the last message sent stay as they are.  Any other offer from a registered
\* peer (handled without a WebRTC error) closes the peer's session if it has
\* one, creates a new session for the peer and sends an answer to it.
C23_Offer ==
    [][\A from \in PeerIds :
          (/\ from \in DOMAIN wgm.clientPeers
           /\ wgm' = handleOffer(wgm, from, "none"))
          => IF /\ from \in DOMAIN wgm.wgConns
                /\ wgm.sessions[wgm.wgConns[from]].state = "connected"
             THEN wgm' = wgm
             ELSE /\ from \in DOMAIN wgm.wgConns =>
                        ~wgm'.sessions[wgm.wgConns[from]].open
                  /\ from \in DOMAIN wgm'.wgConns
                  /\ wgm'.wgConns[from] = Len(wgm.sessions) + 1
                  /\ wgm'.sessions[wgm'.wgConns[from]].peer = from
                  /\ wgm'.sessions[wgm'.wgConns[from]].open
                  /\ wgm'.reply.type = "answer"
                  /\ wgm'.reply.to = from]_vars

\* The sessions of peer id that are live and have a TUN device.
PublishedSessions(id) ==
    {sid \in 1..Len(wgm.sessions) :
        /\ wgm.sessions[sid].peer = id
        /\ wgm.sessions[sid].open
        /\ wgm.sessions[sid].tun}

\* No interface notification that names the TUN device of peer id is waiting
\* to run.
Settled(id) == \A n \in wgm.notifs : n.name # TunName(id)

\* C24: a session that was torn down is no longer in the session table, and
\* once the notifications of a peer whose published session was torn down
\* have run, the Interface Registry does not contain the peer's TUN
\* interface; when that holds for every peer, no listener is accepting.
C24_TeardownRemovesInterface ==
    /\ \A id \in DOMAIN wgm.wgConns : wgm.sessions[wgm.wgConns[id]].open
    /\ \A id \in PeerIds :
          (PublishedSessions(id) = {} /\ Settled(id))
              => TunName(id) \notin DOMAIN interfaces
    /\ (\A id \in PeerIds : PublishedSessions(id) = {} /\ Settled(id))
          => Accepting(World) = {}

-----------------------------------------------------------------------------
(* Further claims about the catalog (SpecModify, Spec, SpecSync)           *)

\* C25: a modify_service, enable or disable call with a well-formed
\* configuration and an id that is not in the catalog returns a NotFound
\* error, leaves the catalog without a row for the id, starts no listener
\* and makes no enqueue attempt.
C25_ModifyNotFound ==
    (/\ last.op = "modify_service"
     /\ last.id \notin DOMAIN last.before
     /\ ~ModifyInvalid(last.arg)
     /\ ~NoFields(last.arg))
    => /\ last.err = "notfound"
       /\ db = last.before
       /\ \A s \in Accepting(World) : s.svc # last.id
       /\ last.attempts = <<>>

\* C26: after a delete_service(id) that succeeded, get(id) fails and no
\* listener of the service is accepting; a delete_service(id) for an id that
\* is not in the catalog (such as a second delete) returns a NotFound error,
\* changes neither catalog nor listeners and makes no enqueue attempt.
C26_Delete ==
    [][last'.op = "delete_service" =>
          /\ last'.err = "ok" =>
                /\ GetService([db |-> db'], last'.id).err = "notfound"
                /\ \A s \in AcceptingNext : s.svc # last'.id
          /\ last'.id \notin DOMAIN db =>
                /\ last'.err = "notfound"
                /\ UNCHANGED Fleet
                /\ last'.attempts = <<>>]_vars

\* C27: an add_service whose (local_host, local_port) pair a service of the
\* catalog already has does not succeed, and an add_service that fails
\* leaves the catalog (no row, no tunnel port taken) and the listeners as
\* they were.
C27_AddConflict ==
    [][last'.op = "add_service" =>
          /\ last'.err = "ok" =>
                \A i \in DOMAIN db :
                    <<db[i].local_host, db[i].local_port>>
                       # <<db'[last'.id].local_host, db'[last'.id].local_port>>
          /\ last'.err # "ok" => UNCHANGED Fleet]_vars

-----------------------------------------------------------------------------
(* SpecCatalog: every catalog operation, one call at a time, with the sync *)
(* channel set, on a manager that may be started and may have an interface; *)
(* `last` records the configuration of a modify_service call as in         *)
(* SpecModify                                                              *)

Clear ==
    /\ Commit(RunCall(World, NewCall("clear", 0, Nil, "delete")))
    /\ UNCHANGED <<calls, client, wgm>>

InitCatalog == InitMgr /\ syncChan = TRUE

NextCatalog ==
    \/ AddService(AddInputs)
    \/ IdsLeft /\ ModifyAny
    \/ IdsLeft /\ Enable
    \/ IdsLeft /\ Disable
    \/ DeleteService
    \/ Clear
    \/ SetupStart
    \/ SetupAddInterface
    \/ OutboundDequeue

SpecCatalog == InitCatalog /\ [][NextCatalog]_vars

\* The operation tag the sync message of the last call must carry.
Tag ==
    CASE last.op = "add_service" -> "created"
      [] last.op = "delete_service" -> "deleted"
      [] last.op = "modify_service" ->
            IF last.arg = SetEnabled(TRUE) THEN "enabled"
            ELSE IF last.arg = SetEnabled(FALSE) THEN "disabled"
            ELSE "updated"

\* C28: the service-sync message a catalog mutation enqueues (or drops on a
\* full channel) carries the operation tag of the mutation: created for
\* add_service, deleted for delete_service, enabled for enable, disabled for
\* disable, updated for any other modify_service.
C28_OperationTag ==
    (last.op \in Mutations /\ last.attempts # <<>>) =>
        /\ last.attempts[1].msg.type = "service-sync"
        /\ last.attempts[1].msg.operation = Tag

\* C29: a clear() leaves no listener accepting and the catalog empty, and if
\* the catalog held a service it enqueues (or drops on a full channel) one
\* service-sync-batch with operation=remove for the services it removes.
C29_Clear ==
    [][(last'.op = "clear" /\ last' # last) =>
          /\ last'.err = "ok"
          /\ AcceptingNext = {}
          /\ db' = EmptyMap
          /\ db # EmptyMap =>
                /\ Len(last'.attempts) = 1
                /\ last'.attempts[1].msg.type = "service-sync-batch"
                /\ last'.attempts[1].msg.operation = "remove"
                /\ last'.attempts[1].msg.services = DOMAIN db]_vars

-----------------------------------------------------------------------------
(* Claims about the workers of a connection (SpecSig)                      *)

Readers(cl) == {k \in DOMAIN cl.procs : k[1] = "reader"}

\* The client holds a working socket and no connect or reconnect is in
\* progress.
Connected(cl) ==
    /\ cl.conn # 0
    /\ cl.sockets[cl.conn] = "open"
    /\ cl.conn \notin cl.broken
    /\ cl.ctx = "live"
    /\ \A k \in DOMAIN cl.procs : k[1] = "reader"

\* C30: while the client is connected exactly one reader, one keepaliver and
\* one outbound sender are running, however many reconnects came before.
C30_OneWorkerSet ==
    Connected(client) =>
        /\ Cardinality(Readers(client)) = 1
        /\ client.workers = 1
        /\ Len(client.senders) = 1

-----------------------------------------------------------------------------
(* Claims about the outbound sender (SpecOut)                              *)

\* C31: a message that a sender dequeued while the client had no connection
\* is dropped: it is never written to a socket, and the sender that took it
\* goes back to receiving.
C31_DroppedWhileDisconnected ==
    \A mid \in client.dequeuedDown : ~Written(mid)

-----------------------------------------------------------------------------
(* Claims about failing offers and stale session events (SpecPeers)        *)

\* C33: when handling an offer of a registered peer fails after the peer
\* connection was created (offer data that does not decode, a rejected
\* remote description, a failing answer creation or send), the handler
\* returns the error and the session table holds no session for the peer.
C33_FailedOfferDropsSession ==
    [][\A from \in PeerIds :
          (/\ from \in DOMAIN wgm.clientPeers
           /\ wgm' = handleOffer(wgm, from, "answer"))
          => from \notin DOMAIN wgm'.wgConns]_vars

\* C37: a Closed, Disconnected or Failed event of a session that is not the
\* current session of its peer (it was torn down or replaced) changes
\* neither the session table nor the peer table and announces no interface
\* removal: a newer session of the same peer id, its registration and its
\* interface are left alone.
C37_StaleEventIsolated ==
    [][\A sid \in 1..Len(wgm.sessions),
          state \in {"closed", "disconnected", "failed"} :
          LET p == wgm.sessions[sid].peer
          IN  (/\ wgm.sessions[sid].state # state
               /\ (p \notin DOMAIN wgm.wgConns \/ wgm.wgConns[p] # sid)
               /\ wgm' = OnConnectionStateChange(wgm, sid, state))
              => /\ wgm'.wgConns = wgm.wgConns
                 /\ wgm'.clientPeers = wgm.clientPeers
                 /\ wgm'.notifs = wgm.notifs]_vars

-----------------------------------------------------------------------------
(* SpecSession: the sessions of the wireguard Manager statement by          *)
(* statement.  The goroutine that a data channel's OnOpen starts (settle    *)
(* delay, device bring-up, announcement) runs beside the teardown of its    *)
(* session, which holds the manager's mutex from closeBegin to its last     *)
(* step, and beside the notification goroutines.  A handler that panics     *)
(* ends the process.  One peer (id 1) registers; offers arrive from it,     *)
(* from an unregistered id, with an empty and with no sender.               *)

Running == ~wgm.panicked
MgrFree == wgm.td.pc = "none"

\* OnConnectionStateChange of session sid: the state is stored, and Closed,
\* Disconnected and Failed call closeConnectionFromPeer for the peer id.
connectionStateChanged(m, sid, state) ==
    LET m1 == [m EXCEPT !.sessions[sid].state = state]
        peer == m.sessions[sid].peer
    IN  IF state \in {"closed", "disconnected", "failed"}
           /\ peer \in DOMAIN m1.wgConns
        THEN closeBegin(m1, peer)
        ELSE m1

SessionConnectRequest ==
    /\ Running /\ MgrFree
    /\ wgm' = handleConnectRequestInner(wgm, Payload(1, 0, NoIP, NoIP),
                                        "connect-response")
    /\ PeersOnly

SessionOffer ==
    /\ Running /\ MgrFree
    /\ \E from \in {Absent} \cup (0..MaxPeers) :
          /\ Len(wgm.sessions) < MaxSessions
          /\ wgm' = handleOffer(wgm, from, "none")
    /\ PeersOnly

SessionEvent ==
    /\ Running /\ MgrFree
    /\ \E sid \in 1..Len(wgm.sessions),
          state \in {"connected", "disconnected", "failed", "closed"} :
          /\ wgm.sessions[sid].state # "closed"
          /\ wgm.sessions[sid].state # state
          /\ ~wgm.sessions[sid].open => state = "closed"
          /\ wgm' = connectionStateChanged(wgm, sid, state)
    /\ PeersOnly

SessionDisconnect ==
    /\ Running /\ MgrFree
    /\ \E id \in DOMAIN wgm.wgConns : wgm' = closeBegin(wgm, id)
    /\ PeersOnly

TeardownStep ==
    /\ Running /\ ~MgrFree
    /\ wgm' = closeStep(wgm)
    /\ PeersOnly

\* The data channel of an open peer connection opens.
DataChannelOpened ==
    /\ Running
    /\ \E sid \in 1..Len(wgm.sessions) :
          /\ wgm.sessions[sid].open
          /\ wgm.sessions[sid].dc = "none"
          /\ wgm' = onOpen(wgm, sid)
    /\ PeersOnly

\* The data channel closes: the remote side closed it, or the transport of
\* a closed peer connection stopped.
DataChannelClosed ==
    /\ Running
    /\ \E sid \in 1..Len(wgm.sessions) :
          /\ wgm.sessions[sid].dc = "open"
          /\ wgm' = [wgm EXCEPT !.sessions[sid].dc = "closed"]
    /\ PeersOnly

TaskAt(pc) == {sid \in 1..Len(wgm.sessions) : wgm.sessions[sid].task = pc}

TaskSettle ==
    /\ Running
    /\ \E sid \in TaskAt("settle") : wgm' = taskSettle(wgm, sid)
    /\ PeersOnly

TaskCreate ==
    /\ Running
    /\ \E sid \in TaskAt("create"), ok \in BOOLEAN :
          wgm' = taskCreate(wgm, sid, ok)
    /\ PeersOnly

TaskUp ==
    /\ Running
    /\ \E sid \in TaskAt("up"), ok \in BOOLEAN : wgm' = taskUp(wgm, sid, ok)
    /\ PeersOnly

TaskAnnounce ==
    /\ Running
    /\ \E sid \in TaskAt("announce") : wgm' = taskAnnounce(wgm, sid)
    /\ PeersOnly

SessionNotify == Running /\ Notify

InitSession == InitMgr /\ syncChan = FALSE

NextSession ==
    \/ SessionConnectRequest
    \/ SessionOffer
    \/ SessionEvent
    \/ SessionDisconnect
    \/ TeardownStep
    \/ DataChannelOpened
    \/ DataChannelClosed
    \/ TaskSettle
    \/ TaskCreate
    \/ TaskUp
    \/ TaskAnnounce
    \/ SessionNotify

SpecSession == InitSession /\ [][NextSession]_vars

-----------------------------------------------------------------------------
(* Claims about the sessions (SpecSession)                                 *)

\* C36: an offer without a sender, with an empty sender or from an id that
\* is not in the peer table creates no session and sends no answer, and its
\* handler returns (it does not panic).
C36_BadOfferRejected ==
    [][\A from \in {Absent} \cup (0..MaxPeers) :
          (/\ from \notin DOMAIN wgm.clientPeers
           /\ wgm' = handleOffer(wgm, from, "none"))
          => /\ wgm'.sessions = wgm.sessions
             /\ wgm'.wgConns = wgm.wgConns
             /\ wgm'.reply = wgm.reply
             /\ ~wgm'.panicked]_vars

\* C32: when add_interface runs for the interface of a peer, a session of
\* that peer has an open peer connection in state Connected and an open data
\* channel: nothing is published for a session that left Connected or whose
\* channel closed during the settle delay or the device bring-up.
C32_PublishOnlyWhenConnected ==
    [][\A n \in wgm.notifs :
          (/\ n.kind = "added"
           /\ wgm' = [wgm EXCEPT !.notifs = @ \ {n}])
          => \E sid \in 1..Len(wgm.sessions) :
                /\ TunName(wgm.sessions[sid].peer) = n.name
                /\ wgm.sessions[sid].open
                /\ Stable(wgm.sessions[sid])]_vars

\* C38: a session that was torn down, whose teardown and whose OnOpen
\* goroutine have finished, has no open TUN device and no open WireGuard
\* device, also when the teardown ran during the settle delay or the device
\* bring-up of the goroutine.
C38_NoDeviceAfterTeardown ==
    \A sid \in 1..Len(wgm.sessions) :
        (/\ ~wgm.sessions[sid].open
         /\ wgm.td.sid # sid
         /\ wgm.sessions[sid].task \in {"none", "done"})
        => ~wgm.sessions[sid].tun /\ ~wgm.sessions[sid].wg

\* C35: a teardown closes the WireGuard device of its session only after the
\* bind and the peer connection, and the TUN device only after the WireGuard
\* device; when it closes the TUN device it has captured the name of that
\* device before, for the interface cleanup.
C35_TeardownOrder ==
    [][(wgm.td.pc \in {"wg", "tun"} /\ wgm' = closeStep(wgm))
          => LET s == wgm.sessions[wgm.td.sid]
             IN  /\ (wgm.td.pc = "wg" /\ s.wg) => ~s.open
                 /\ (wgm.td.pc = "tun" /\ s.tun)
                        => ~s.open /\ ~s.wg /\ wgm.td.name]_vars

(***************************************************************************)
(* SpecBind: the WebRTCBind of a session. Close() is called by the         *)
(* WireGuard device and by the session's teardown, OnClose by the data     *)
(* channel, Open() by the WireGuard device, which holds its own lock       *)
(* around Open and so runs one Open at a time. Open reads closedFlag       *)
(* without the bind's mutex and takes the mutex only inside reopen, so the *)
(* read and reopen are two steps, and the other operations run between     *)
(* them.                                                                    *)
(***************************************************************************)
MaxOpens == 3
MaxChannels == 2
MaxPackets == 3

\* close(b.closed)
closeSignal(b) == [b EXCEPT !.closes[b.closed] = @ + 1]

\* SetDataChannel: stores the channel and registers its callbacks.
SetDataChannel(b) == [b EXCEPT !.dataChannel = TRUE, !.live = @ + 1]

\* The OnMessage callback: a select over the send on recvCh and the close
\* signal, with a default branch that drops the packet. When both cases are
\* ready the runtime picks one of them: deliver is its pick.
OnMessage(b, deliver) ==
    LET full == b.recvCh.len = b.recvCh.cap
        shut == b.closes[b.closed] > 0
    IN  [b EXCEPT !.packets = @ + 1,
                  !.recvCh.len = IF ~full /\ (deliver \/ ~shut)
                                 THEN @ + 1 ELSE @]

\* The OnClose callback.
OnClose(b) ==
    LET c == [b EXCEPT !.dataChannel = FALSE, !.live = @ - 1]
    IN  IF ~c.closedFlag
        THEN [closeSignal(c) EXCEPT !.closedFlag = TRUE]
        ELSE c

\* Close without the test of closedFlag.
CloseUnguarded(b) == [closeSignal(b) EXCEPT !.closedFlag = TRUE]

\* Close
Close(b) ==
    IF b.closedFlag THEN b
    ELSE [closeSignal(b) EXCEPT !.closedFlag = TRUE]

\* Open, up to the call of reopen: the read of closedFlag.
openRead(b) ==
    [b EXCEPT !.opens = @ + 1,
              !.pc = IF b.closedFlag THEN "reopen" ELSE "idle"]

\* reopen, and the rest of Open, which changes nothing.
reopen(b) ==
    [b EXCEPT !.closedFlag = FALSE,
              !.closed = Len(b.closes) + 1,
              !.closes = Append(@, 0),
              !.recvCh = [cap |-> RecvCap, len |-> 0],
              !.pc = "idle"]

\* The receive function Open returned, taking a packet.
receiveFunc(b) == [b EXCEPT !.recvCh.len = @ - 1]

BindStep(b) == wgm' = [wgm EXCEPT !.bind = b] /\ PeersOnly

BindSetDataChannel ==
    /\ wgm.bind.live < MaxChannels
    /\ BindStep(SetDataChannel(wgm.bind))

BindOnMessage ==
    /\ wgm.bind.live > 0
    /\ wgm.bind.packets < MaxPackets
    /\ \E deliver \in BOOLEAN : BindStep(OnMessage(wgm.bind, deliver))

BindOnClose ==
    /\ wgm.bind.live > 0
    /\ BindStep(OnClose(wgm.bind))

BindClose ==
    /\ wgm' = [wgm EXCEPT !.bind = Close(@)]
    /\ PeersOnly

BindOpen ==
    /\ wgm.bind.pc = "idle"
    /\ wgm.bind.opens < MaxOpens
    /\ BindStep(openRead(wgm.bind))

BindReopen ==
    /\ wgm.bind.pc = "reopen"
    /\ BindStep(reopen(wgm.bind))

BindReceive ==
    /\ wgm.bind.recvCh.len > 0
    /\ BindStep(receiveFunc(wgm.bind))

InitBind == InitMgr /\ syncChan = FALSE

NextBind ==
    \/ BindSetDataChannel
    \/ BindOnMessage
    \/ BindOnClose
    \/ BindClose
    \/ BindOpen
    \/ BindReopen
    \/ BindReceive

SpecBind == InitBind /\ [][NextBind]_vars

(***************************************************************************)
(* Claims about the bind (SpecBind)                                        *)
(***************************************************************************)

createServiceRegistry(m, cloud) ==
    [m EXCEPT !.service.registry = TRUE, !.service.sigClient = cloud]

\* Service.Initialize: without a signaling client it returns nil and leaves
\* s.manager unset; otherwise it creates the manager.
Service_Initialize(m) ==
    [m EXCEPT !.service.initialized = TRUE,
              !.service.manager = m.service.sigClient]

\* Manager.GetInterfaceIPs: TUN name -> edge IP of the sessions in wgConns
\* that have a TUN device and a registered peer, as a set of pairs.
GetInterfaceIPs(m) ==
    {<<TunName(id), m.clientPeers[id].edge_ip>> :
        id \in {i \in DOMAIN m.wgConns :
                   /\ m.sessions[m.wgConns[i]].tunSet
                   /\ i \in DOMAIN m.clientPeers}}

\* Service.Start: the registry has the proxy provider, which is a
\* NetworkService, so s.manager.SetNetworkService is called: it locks
\* m.netServiceMutex, a nil pointer dereference when s.manager is nil.
Service_Start(m) ==
    IF ~m.service.manager
    THEN [m EXCEPT !.service.crashed = TRUE]
    ELSE [m EXCEPT !.service.started = TRUE,
                   !.service.netService = TRUE,
                   !.service.pushed = GetInterfaceIPs(m)]

\* Manager.Stop: close() of every session in wgConns.
Manager_Stop(m) ==
    [m EXCEPT !.sessions =
        [sid \in 1..Len(m.sessions) |->
            IF \E id \in DOMAIN m.wgConns : m.wgConns[id] = sid
            THEN [m.sessions[sid] EXCEPT !.open = FALSE, !.wg = FALSE,
                                         !.tun = FALSE]
            ELSE m.sessions[sid]]]

\* Service.Stop
Service_Stop(m) ==
    LET m1 == IF m.service.manager THEN Manager_Stop(m) ELSE m
    IN  [m1 EXCEPT !.service.stopped = TRUE]

\* Service.RegisterAPIRoutes
RegisterAPIRoutes(m) == [m EXCEPT !.service.routes = TRUE]

Unavailable == [status |-> "service-unavailable", body |-> {}]

\* GET /api/wireguard/peers
RoutePeers(m) ==
    [m EXCEPT !.service.response =
        IF ~m.service.manager THEN Unavailable
        ELSE [status |-> "ok", body |-> DOMAIN m.wgConns]]

\* GET /api/wireguard/peers/:id
RoutePeer(m, id) ==
    [m EXCEPT !.service.response =
        IF ~m.service.manager THEN Unavailable
        ELSE IF id \notin DOMAIN m.clientPeers
        THEN [status |-> "not-found", body |-> {}]
        ELSE [status |-> "ok", body |-> {m.clientPeers[id]}]]

\* DELETE /api/wireguard/peers/:id
RouteDeletePeer(m, id) ==
    IF ~m.service.manager THEN [m EXCEPT !.service.response = Unavailable]
    ELSE IF id \notin DOMAIN m.wgConns
    THEN [m EXCEPT !.service.response = [status |-> "not-found", body |-> {}]]
    ELSE [DisconnectPeer(m, id) EXCEPT
             !.service.response = [status |-> "ok", body |-> {}]]

\* GET /api/wireguard/interfaces
RouteInterfaces(m) ==
    [m EXCEPT !.service.response =
        IF ~m.service.manager THEN Unavailable
        ELSE [status |-> "ok", body |-> GetInterfaceIPs(m)]]

\* The process runs: no goroutine has panicked and Shutdown has not run.
Serving == ~wgm.service.crashed /\ ~wgm.service.stopped

ServiceStep(m) == wgm' = m /\ PeersOnly

MainCreateRegistry ==
    /\ ~wgm.service.registry
    /\ \E cloud \in BOOLEAN : ServiceStep(createServiceRegistry(wgm, cloud))

MainInitializeAll ==
    /\ wgm.service.registry /\ ~wgm.service.initialized
    /\ ServiceStep(Service_Initialize(wgm))

MainStartRunnable ==
    /\ Serving
    /\ wgm.service.initialized /\ ~wgm.service.started
    /\ ServiceStep(Service_Start(wgm))

MainRegisterAllRoutes ==
    /\ Serving
    /\ wgm.service.initialized /\ ~wgm.service.routes
    /\ ServiceStep(RegisterAPIRoutes(wgm))

MainShutdown ==
    /\ Serving
    /\ wgm.service.routes
    /\ ServiceStep(Service_Stop(wgm))

Routing == Serving /\ wgm.service.routes

GetPeers == Routing /\ ServiceStep(RoutePeers(wgm))

GetPeer == Routing /\ \E id \in PeerIds : ServiceStep(RoutePeer(wgm, id))

DeletePeer ==
    Routing /\ \E id \in PeerIds : ServiceStep(RouteDeletePeer(wgm, id))

GetInterfaces == Routing /\ ServiceStep(RouteInterfaces(wgm))

\* The signaling handlers of the manager, which exist once Initialize has
\* registered them.
Handling == Serving /\ wgm.service.manager

ServiceConnectRequest ==
    /\ Handling
    /\ \E id \in PeerIds :
          ServiceStep(handleConnectRequestInner(wgm, Payload(id, 0, NoIP, NoIP),
                                                "connect-response"))

ServiceOffer ==
    /\ Handling
    /\ Len(wgm.sessions) < MaxSessions
    /\ \E from \in PeerIds : ServiceStep(handleOffer(wgm, from, "none"))

ServiceConnected ==
    /\ Handling
    /\ \E sid \in 1..Len(wgm.sessions) :
          /\ wgm.sessions[sid].open
          /\ wgm.sessions[sid].state = "new"
          /\ ServiceStep(OnDataChannelOpen(
                 OnConnectionStateChange(wgm, sid, "connected"), sid))

InitService == InitMgr /\ syncChan = FALSE

NextService ==
    \/ MainCreateRegistry
    \/ MainInitializeAll
    \/ MainStartRunnable
    \/ MainRegisterAllRoutes
    \/ MainShutdown
    \/ GetPeers
    \/ GetPeer
    \/ DeletePeer
    \/ GetInterfaces
    \/ ServiceConnectRequest
    \/ ServiceOffer
    \/ ServiceConnected

SpecService == InitService /\ [][NextService]_vars

(***************************************************************************)
(* Claims about the Service (SpecService)                                  *)
(***************************************************************************)

\* C39: with no signaling client in the registry, Initialize, Start, Stop and
\* the API routes complete without a crash: the Service has no manager, no
\* goroutine panics, and every route answers service-unavailable.
C39_NoClientNoCrash ==
    (wgm.service.registry /\ ~wgm.service.sigClient)
        => /\ ~wgm.service.crashed
           /\ ~wgm.service.manager
           /\ wgm.service.response.status \in {"none", "service-unavailable"}

(***************************************************************************)
(* SpecAck: SpecOut with a cloud that acknowledges every sync message it   *)
(* receives, and with goroutines that keep running: the senders, the       *)
(* readers, the connect and reconnect steps and the dispatch of an ack are *)
(* weakly fair, and so is the return of a dial.  Losing a socket, calling  *)
(* the API and the outcome of a dial are up to the environment.            *)
(***************************************************************************)

\* The cloud's service-sync-ack for a message that was written to a socket,
\* dispatched to HandleServiceSyncAck.
CloudAck ==
    /\ \E mid \in DOMAIN syncCallbacks :
          /\ Written(mid)
          /\ Commit(HandleServiceSyncAck(World, mid, TRUE))
    /\ UNCHANGED <<calls, client, wgm>>

\* The API calls of SpecAck: at most AckMsgs message ids are handed out.
AckMsgs == 2

AckEnable == nextId <= AckMsgs /\ EnableWhileConnecting

NextAck ==
    \/ ClientConnect
    \/ Dial(1)
    \/ ClientInstall
    \/ ClientSpawn
    \/ ReaderTop
    \/ ReaderLoad
    \/ ReaderRead
    \/ ReconnectCheck
    \/ ReconnectClose
    \/ ReconnectLoop
    \/ ReconnectBackoff
    \/ ReconnectReset
    \/ BreakSocket
    \/ AckEnable
    \/ SenderReceive
    \/ SenderLoad
    \/ SenderWrite
    \/ CloudAck

SpecAck ==
    /\ InitOut
    /\ [][NextAck]_vars
    /\ WF_vars(SenderReceive) /\ WF_vars(SenderLoad) /\ WF_vars(SenderWrite)
    /\ WF_vars(CloudAck)
    /\ WF_vars(Dial(1)) /\ WF_vars(ClientInstall) /\ WF_vars(ClientSpawn)
    /\ WF_vars(ReaderTop) /\ WF_vars(ReaderLoad) /\ WF_vars(ReaderRead)
    /\ WF_vars(ReconnectCheck) /\ WF_vars(ReconnectClose)
    /\ WF_vars(ReconnectLoop) /\ WF_vars(ReconnectBackoff)
    /\ WF_vars(ReconnectReset)

(***************************************************************************)
(* Claims about the callback table under an acknowledging cloud (SpecAck)  *)
(***************************************************************************)

\* C40: every sync callback whose message was enqueued and has left the
\* outbound channel is eventually removed from the callback table, whether
\* the message was written to the cloud or was dequeued while the client
\* was disconnected.  A client that is left with no reader and no reconnect
\* goroutine (C5) is set aside: the property asks for the removal only as
\* long as the client has a goroutine that reads or reconnects.
C40_CallbackEventuallyRemoved ==
    \A mid \in MsgIds :
        (/\ mid \in DOMAIN syncCallbacks
         /\ mid \in enqueued
         /\ ~InChannel(mid))
            ~> (\/ mid \notin DOMAIN syncCallbacks
                \/ client.procs = EmptyMap)

====
